---- MODULE Spec2Model ----
(***************************************************************************)
(* Bus ticket booking engine: the Bus seat ledger (models.py), the         *)
(* BusBookingSystem (booking_system.py), the admin merge (admin.py) and    *)
(* the SQLite mirror (database.py), as state machines.                     *)
(*                                                                         *)
(* Representation.  Bus.seats_by_date[date] is a dict {1..total_seats ->   *)
(* client or None}; here it is the function of its non-None entries only   *)
(* (held seat -> client): a seat of 1..total_seats outside its domain is   *)
(* an entry holding None.  A date is materialized iff it is in             *)
(* DOMAIN seats_by_date.  The registry bookings_db is an insertion-ordered *)
(* dict, modelled as the sequence of its values in insertion order; each   *)
(* value carries its key booking_id.                                       *)
(***************************************************************************)
EXTENDS Integers, Sequences, FiniteSets, TLC

\* ------------------------------------------------------------- bounds
InitialBuses == 2
MaxSeatInput == 2
NumDates == 1
NumClients == 2
MaxClock == 2
MaxOps == 3
FleetOps == 2
ReloadOps == 2
MaxFleet == 4
MergeOps == 1
CapBuses == 3
MaxLog == 3
MaxBatch == 2
SeatLockTimeout == 1
NumThreads == 2
MaxConcOps == 1
NumRacers == 3

\* -------------------------------------------------- program constants
DEFAULT_SEATS_PER_BUS == 50
MAX_BUS_COUNT == 100
LOAD_THRESHOLD_HIGH_PCT == 80
LOAD_THRESHOLD_LOW_PCT == 20

\* ------------------------------------------------------------- inputs
None == -1

ClientNames == <<"client1", "client2", "client3", "client4", "client5">>

DateNames == <<"2025-10-04", "2025-10-05", "2025-10-06">>

Clients == {ClientNames[i] : i \in 1..NumClients}

Dates == {DateNames[i] : i \in 1..NumDates}

\* bus ids a caller may name: the initial ones and one that does not exist
BusInputs == 0..InitialBuses

\* seats a caller may name: low seat numbers and one past the last seat
SeatInputs == (1..MaxSeatInput) \cup {DEFAULT_SEATS_PER_BUS + 1}

\* ------------------------------------------------------------ helpers
Remove(f, k) == [x \in (DOMAIN f) \ {k} |-> f[x]]

Put(f, k, v) == [x \in (DOMAIN f) \cup {k} |-> IF x = k THEN v ELSE f[x]]

Min(S) == CHOOSE x \in S : \A y \in S : x <= y

Max(S) == CHOOSE x \in S : \A y \in S : x >= y

\* the elements of a finite set of integers in ascending order
Ascending(S) ==
  [i \in 1..Cardinality(S) |->
     CHOOSE x \in S : Cardinality({y \in S : y < x}) = i - 1]

RECURSIVE SumOver(_, _)
SumOver(S, f) ==
  IF S = {} THEN 0
  ELSE LET x == CHOOSE y \in S : TRUE IN f[x] + SumOver(S \ {x}, f)

\* --------------------------------------------------------- models.Bus
Bus(bus_id, total_seats) ==
  [bus_id |-> bus_id, total_seats |-> total_seats, status |-> "active",
   seats_by_date |-> <<>>, locks |-> <<>>,
   reservation_time |-> <<>>, booking_confirmed |-> <<>>]

\* a threading.Lock object, told apart by the thread that created it
\* (0: created by a call that ran alone)
Lock(creator) == <<"Lock", creator>>

ensure_date_exists(bus, date) ==
  [bus EXCEPT
     !.seats_by_date = IF date \in DOMAIN @ THEN @ ELSE Put(@, date, <<>>),
     !.locks = IF date \in DOMAIN @ THEN @ ELSE Put(@, date, Lock(0))]

\* the dict's None entries, in the dict's order (ascending seat number)
FreeSeats(bus, date) ==
  {s \in 1..bus.total_seats : s \notin DOMAIN bus.seats_by_date[date]}

\* get_available_seats without the filter of line 35: every seat of the date
get_available_seats_unfiltered(bus, date) ==
  LET b == ensure_date_exists(bus, date)
  IN [bus |-> b, ret |-> Ascending(1..b.total_seats)]

get_available_seats(bus, date) ==
  LET b == ensure_date_exists(bus, date)
  IN [bus |-> b, ret |-> Ascending(FreeSeats(b, date))]

BookedOn(bus, date) == Cardinality(DOMAIN bus.seats_by_date[date])

\* a load factor is the pair <<numerator, denominator>> of the float
get_load_factor_for_date(bus, date) ==
  LET b == ensure_date_exists(bus, date)
  IN [bus |-> b,
      ret |-> IF b.total_seats > 0 THEN <<BookedOn(b, date), b.total_seats>>
              ELSE <<0, 1>>]

BookedSeatDates(bus) ==
  UNION {{<<s, d>> : s \in DOMAIN bus.seats_by_date[d]} :
           d \in DOMAIN bus.seats_by_date}

bus_get_overall_load_factor(bus) ==
  IF DOMAIN bus.seats_by_date = {} THEN <<0, 1>>
  ELSE LET total_capacity ==
             Cardinality(DOMAIN bus.seats_by_date) * bus.total_seats
       IN IF total_capacity > 0
          THEN <<Cardinality(BookedSeatDates(bus)), total_capacity>>
          ELSE <<0, 1>>

get_load_factor(bus) == bus_get_overall_load_factor(bus)

LoadLess(a, b) == a[1] * b[2] < b[1] * a[2]

\* book_seat without the range test of line 77
book_seat_any_number(bus, seat_number, client_id, date, confirmed, time) ==
  LET b == ensure_date_exists(bus, date)
  IN IF seat_number \notin DOMAIN b.seats_by_date[date]
     THEN [bus |->
             [b EXCEPT
                !.seats_by_date[date] = Put(@, seat_number, client_id),
                !.reservation_time = Put(@, <<seat_number, date>>, time),
                !.booking_confirmed = Put(@, <<seat_number, date>>, confirmed)],
           ret |-> TRUE]
     ELSE [bus |-> b, ret |-> FALSE]

\* book_seat without the holder test of line 79
book_seat_overwrite(bus, seat_number, client_id, date, confirmed, time) ==
  LET b == ensure_date_exists(bus, date)
  IN IF 1 <= seat_number /\ seat_number <= b.total_seats
     THEN [bus |->
             [b EXCEPT
                !.seats_by_date[date] = Put(@, seat_number, client_id),
                !.reservation_time = Put(@, <<seat_number, date>>, time),
                !.booking_confirmed = Put(@, <<seat_number, date>>, confirmed)],
           ret |-> TRUE]
     ELSE [bus |-> b, ret |-> FALSE]

book_seat(bus, seat_number, client_id, date, confirmed, time) ==
  LET b == ensure_date_exists(bus, date)
  IN IF /\ 1 <= seat_number /\ seat_number <= b.total_seats
        /\ seat_number \notin DOMAIN b.seats_by_date[date]
     THEN [bus |->
             [b EXCEPT
                !.seats_by_date[date] = Put(@, seat_number, client_id),
                !.reservation_time = Put(@, <<seat_number, date>>, time),
                !.booking_confirmed = Put(@, <<seat_number, date>>, confirmed)],
           ret |-> TRUE]
     ELSE [bus |-> b, ret |-> FALSE]

release_seat(bus, seat_number, date) ==
  IF /\ date \in DOMAIN bus.seats_by_date
     /\ 1 <= seat_number /\ seat_number <= bus.total_seats
  THEN [bus |->
          [bus EXCEPT
             !.seats_by_date[date] = Remove(@, seat_number),
             !.reservation_time = Remove(@, <<seat_number, date>>),
             !.booking_confirmed = Remove(@, <<seat_number, date>>)],
        ret |-> TRUE]
  ELSE [bus |-> bus, ret |-> FALSE]

\* seat_number is a key of the dict: every bus has the same total_seats
is_seat_available(bus, seat_number, date) ==
  LET b == ensure_date_exists(bus, date)
  IN [bus |-> b, ret |-> seat_number \notin DOMAIN b.seats_by_date[date]]

\* ------------------------------------------- database.DatabaseManager
\* Table bookings is the function booking_id -> row, table bus_seats the
\* function <<bus_id, seat_number, departure_date>> -> client_id (both
\* keyed by their PRIMARY KEY).  booking_time is not modelled.
save_booking(db_bookings, booking_data) ==
  Put(db_bookings, booking_data.booking_id, booking_data)

delete_booking(db_bookings, booking_id) == Remove(db_bookings, booking_id)

get_all_bookings(db_bookings) == {db_bookings[k] : k \in DOMAIN db_bookings}

save_bus_seat(db_bus_seats, bus_id, seat_number, client_id, departure_date) ==
  Put(db_bus_seats, <<bus_id, seat_number, departure_date>>, client_id)

delete_bus_seat(db_bus_seats, bus_id, seat_number, departure_date) ==
  Remove(db_bus_seats, <<bus_id, seat_number, departure_date>>)

NoId == <<"BK", None, None, "">>

\* Python's None where a booking row is expected
NoBooking ==
  [booking_id |-> NoId, client_id |-> "", bus_id |-> None, seat |-> None,
   date |-> ""]

\* called by cancel_booking; the method is not in database.py
get_booking_by_id(db_bookings, booking_id) ==
  IF booking_id \in DOMAIN db_bookings THEN db_bookings[booking_id]
  ELSE NoBooking

\* ------------------------------------------------- the registry dict
RegistryKeys(reg) == {reg[k].booking_id : k \in DOMAIN reg}

RegistryIndex(reg, booking_id) ==
  CHOOSE k \in DOMAIN reg : reg[k].booking_id = booking_id

\* bookings_db[booking_id] = booking_data
RegistryPut(reg, booking_data) ==
  IF booking_data.booking_id \in RegistryKeys(reg)
  THEN [reg EXCEPT ![RegistryIndex(reg, booking_data.booking_id)] = booking_data]
  ELSE Append(reg, booking_data)

\* del bookings_db[booking_id]
RegistryDel(reg, booking_id) ==
  LET i == RegistryIndex(reg, booking_id)
  IN [k \in 1..(Len(reg) - 1) |-> IF k < i THEN reg[k] ELSE reg[k + 1]]

\* ------------------------------------- booking_system.BusBookingSystem
\* A system state is sys = [buses, bookings_db, db_bus_seats, db_bookings]:
\* buses is the dict bus_id -> Bus (its keys are inserted in ascending
\* order, so dict order is id order), bookings_db the registry, and the
\* two tables of the database.
\* lines 79-88: a call that names a client counts distinct clients, a call
\* that names none adds one
increment_visitor(count, unique, client_id) ==
  IF client_id # ""
  THEN [visitor_count |-> Cardinality(unique \cup {client_id}),
        unique_visitors |-> unique \cup {client_id}]
  ELSE [visitor_count |-> count + 1, unique_visitors |-> unique]

ActiveIds(buses) == {i \in DOMAIN buses : buses[i].status = "active"}

get_overall_load_factor(sys) ==
  LET act == ActiveIds(sys.buses)
      total_capacity == SumOver(act, [i \in act |-> sys.buses[i].total_seats])
      booked == SumOver(act, [i \in act |->
                  Cardinality(BookedSeatDates(sys.buses[i]))])
      in_memory_bookings ==
        {<<sys.bookings_db[k].bus_id, sys.bookings_db[k].seat,
           sys.bookings_db[k].date>> : k \in DOMAIN sys.bookings_db}
      db_only == {b \in get_all_bookings(sys.db_bookings) :
                    <<b.bus_id, b.seat, b.date>> \notin in_memory_bookings}
  IN IF total_capacity > 0
     THEN <<booked + Cardinality(db_only), total_capacity>>
     ELSE <<0, 1>>

\* load >= pct / 100
LoadAtLeast(load, pct) == load[1] * 100 >= pct * load[2]

\* the test of line 262 with age >= 0 in place of age > seat_lock_timeout
ExpiredKeysAnyAge(bus, current_time) ==
  {k \in DOMAIN bus.reservation_time :
     current_time - bus.reservation_time[k] >= 0}

ExpiredKeys(bus, current_time) ==
  {k \in DOMAIN bus.reservation_time :
     current_time - bus.reservation_time[k] > SeatLockTimeout}

\* the loop of lines 265-273 over one bus's expired (seat, date) keys
RECURSIVE ReleaseExpiredOf(_, _, _)
ReleaseExpiredOf(sys, bus_id, keys) ==
  IF keys = {} THEN sys
  ELSE LET k == CHOOSE x \in keys : TRUE
           r == release_seat(sys.buses[bus_id], k[1], k[2])
           s == IF r.ret
                THEN [sys EXCEPT
                        !.buses[bus_id] = r.bus,
                        !.db_bus_seats = delete_bus_seat(@, bus_id, k[1], k[2])]
                ELSE sys
       IN ReleaseExpiredOf(s, bus_id, keys \ {k})

RECURSIVE ReleaseExpiredIn(_, _, _)
ReleaseExpiredIn(sys, ids, current_time) ==
  IF ids = {} THEN sys
  ELSE LET i == Min(ids)
       IN ReleaseExpiredIn(
            ReleaseExpiredOf(sys, i, ExpiredKeys(sys.buses[i], current_time)),
            ids \ {i}, current_time)

release_expired_reservations(sys, current_time) ==
  ReleaseExpiredIn(sys, ActiveIds(sys.buses), current_time)

RECURSIVE AddBuses(_, _)
AddBuses(buses, n) ==
  IF n = 0 THEN buses
  ELSE LET new_bus_id == Max(DOMAIN buses) + 1
       IN AddBuses(Put(buses, new_bus_id, Bus(new_bus_id, DEFAULT_SEATS_PER_BUS)),
                   n - 1)

\* lines 298-311 without the cap of self.max_buses: two buses are added
\* whenever the load is at least the high threshold
add_buses_uncapped(sys, max_buses) ==
  IF LoadAtLeast(get_overall_load_factor(sys), LOAD_THRESHOLD_HIGH_PCT)
  THEN [sys EXCEPT !.buses = AddBuses(@, 2)]
  ELSE sys

\* lines 298-311 of a system constructed with the given max_buses
add_buses_upto(sys, max_buses) ==
  LET current_load == get_overall_load_factor(sys)
      current_bus_count == Cardinality(ActiveIds(sys.buses))
  IN IF /\ LoadAtLeast(current_load, LOAD_THRESHOLD_HIGH_PCT)
        /\ current_bus_count < max_buses
     THEN LET buses_to_add ==
                IF max_buses - current_bus_count < 2
                THEN max_buses - current_bus_count ELSE 2
          IN [sys EXCEPT !.buses = AddBuses(@, buses_to_add)]
     ELSE sys

\* max_buses defaults to MAX_BUS_COUNT (line 22)
add_buses_if_needed(sys) == add_buses_upto(sys, MAX_BUS_COUNT)

\* f"BK-{preferred_bus}-{preferred_seat}-{travel_date}"
BookingId(bus_id, seat, date) == <<"BK", bus_id, seat, date>>

BookingData(client_id, bus_id, seat, date) ==
  [booking_id |-> BookingId(bus_id, seat, date), client_id |-> client_id,
   bus_id |-> bus_id, seat |-> seat, date |-> date]

\* lines 180-189: the argument and bus checks
BookCheck(sys, preferred_bus, preferred_seat) ==
  IF preferred_bus = None \/ preferred_seat = None THEN "ValueError"
  ELSE IF preferred_bus \notin DOMAIN sys.buses
       THEN "Selected bus does not exist."
       ELSE IF sys.buses[preferred_bus].status # "active"
            THEN "Selected bus is not available."
            ELSE "ok"

\* the transaction without the SELECT of lines 198-209, its INSERT
\* replacing the row
BookTransactionNoSelect(sys, client_id, travel_date, preferred_bus, preferred_seat) ==
  [sys |->
     [sys EXCEPT
        !.db_bus_seats = Put(@, <<preferred_bus, preferred_seat, travel_date>>,
                             client_id),
        !.db_bookings = save_booking(@,
           BookingData(client_id, preferred_bus, preferred_seat, travel_date))],
   ok |-> TRUE]

\* lines 193-227: the transaction; ok is FALSE when the SELECT finds a row
BookTransaction(sys, client_id, travel_date, preferred_bus, preferred_seat) ==
  IF <<preferred_bus, preferred_seat, travel_date>> \in DOMAIN sys.db_bus_seats
  THEN [sys |-> sys, ok |-> FALSE]
  ELSE [sys |->
          [sys EXCEPT
             !.db_bus_seats = Put(@, <<preferred_bus, preferred_seat, travel_date>>,
                                  client_id),
             !.db_bookings = save_booking(@,
                BookingData(client_id, preferred_bus, preferred_seat, travel_date))],
        ok |-> TRUE]

\* lines 230-232: the in-memory update under system_lock
BookCommit(sys, client_id, travel_date, preferred_bus, preferred_seat, time) ==
  [sys EXCEPT
     !.buses[preferred_bus] =
        book_seat(@, preferred_seat, client_id, travel_date, TRUE, time).bus,
     !.bookings_db = RegistryPut(@,
        BookingData(client_id, preferred_bus, preferred_seat, travel_date))]

\* what a call returned (or raised), with the arguments it was given
Result(op, status, message, client_id, booking_id, bus_id, seat, date) ==
  [op |-> op, status |-> status, message |-> message, client_id |-> client_id,
   booking_id |-> booking_id, bus_id |-> bus_id, seat |-> seat, date |-> date,
   merged_buses |-> <<>>, new_bus_count |-> None, released_seats |-> None]

\* the whole call, run without interruption
book_seat_for_client_upto(sys, client_id, travel_date, preferred_bus, preferred_seat, time, max_buses) ==
  LET s1 == release_expired_reservations(sys, time)
      s2 == add_buses_upto(s1, max_buses)
      chk == BookCheck(s2, preferred_bus, preferred_seat)
      tx == BookTransaction(s2, client_id, travel_date, preferred_bus, preferred_seat)
      res(status, message, id) ==
        Result("book", status, message, client_id, id, preferred_bus,
               preferred_seat, travel_date)
  IN IF chk = "ValueError" THEN [sys |-> s2, ret |-> res("raise", chk, NoId)]
     ELSE IF chk # "ok" THEN [sys |-> s2, ret |-> res("failure", chk, NoId)]
     ELSE IF ~tx.ok
          THEN [sys |-> s2, ret |-> res("failure", "already booked", NoId)]
          ELSE [sys |-> BookCommit(tx.sys, client_id, travel_date, preferred_bus,
                                   preferred_seat, time),
                ret |-> res("success", "Seat booked successfully.",
                            BookingId(preferred_bus, preferred_seat, travel_date))]

\* the whole call on a system constructed with the default max_buses
book_seat_for_client(sys, client_id, travel_date, preferred_bus, preferred_seat, time) ==
  book_seat_for_client_upto(sys, client_id, travel_date, preferred_bus,
                            preferred_seat, time, MAX_BUS_COUNT)

\* the call when the transaction raises, with the in-memory update of lines
\* 230-232 made before the transaction and left in place
book_seat_for_client_db_error_claim_first(sys, client_id, travel_date, preferred_bus, preferred_seat, time) ==
  LET s1 == release_expired_reservations(sys, time)
      s2 == add_buses_if_needed(s1)
      chk == BookCheck(s2, preferred_bus, preferred_seat)
      res(status, message) ==
        Result("book", status, message, client_id, NoId, preferred_bus,
               preferred_seat, travel_date)
  IN IF chk = "ValueError" THEN [sys |-> s2, ret |-> res("raise", chk)]
     ELSE IF chk # "ok" THEN [sys |-> s2, ret |-> res("failure", chk)]
     ELSE [sys |-> BookCommit(s2, client_id, travel_date, preferred_bus,
                              preferred_seat, time),
           ret |-> res("failure", "Booking failed")]

\* the whole call when a statement of the transaction of lines 193-227 (or
\* its commit) raises: atomic_transaction rolls the tables back, the
\* in-memory update of lines 230-232 is not reached, and the handler of lines
\* 246-248 returns the failure
book_seat_for_client_db_error(sys, client_id, travel_date, preferred_bus, preferred_seat, time) ==
  LET s1 == release_expired_reservations(sys, time)
      s2 == add_buses_if_needed(s1)
      chk == BookCheck(s2, preferred_bus, preferred_seat)
      tx == BookTransaction(s2, client_id, travel_date, preferred_bus, preferred_seat)
      rolled_back == [tx.sys EXCEPT !.db_bus_seats = s2.db_bus_seats,
                                    !.db_bookings = s2.db_bookings]
      res(status, message) ==
        Result("book", status, message, client_id, NoId, preferred_bus,
               preferred_seat, travel_date)
  IN IF chk = "ValueError" THEN [sys |-> s2, ret |-> res("raise", chk)]
     ELSE IF chk # "ok" THEN [sys |-> s2, ret |-> res("failure", chk)]
     ELSE [sys |-> rolled_back, ret |-> res("failure", "Booking failed")]

\* cancel_booking without the ownership test of lines 493-494
cancel_booking_any_client(sys, booking_id, client_id) ==
  LET booking == get_booking_by_id(sys.db_bookings, booking_id)
      res(status, message) ==
        Result("cancel", status, message, client_id, booking_id, None, None, "")
  IN IF booking = NoBooking
     THEN [sys |-> sys, ret |-> res("raise", "TypeError")]
     ELSE [sys |->
             [sys EXCEPT
                !.db_bookings = delete_booking(@, booking_id),
                !.db_bus_seats = delete_bus_seat(@, booking.bus_id, booking.seat,
                                                 booking.date),
                !.bookings_db = IF booking_id \in RegistryKeys(@)
                                THEN RegistryDel(@, booking_id) ELSE @],
           ret |-> res("success", "Booking cancelled successfully")]

\* lines 518-526: both rows are deleted in one transaction
cancel_transaction(sys, booking_id, booking) ==
  [sys EXCEPT
     !.db_bookings = delete_booking(@, booking_id),
     !.db_bus_seats = delete_bus_seat(@, booking.bus_id, booking.seat,
                                      booking.date)]

\* the two in-memory updates with the registry entry removed first
cancel_memory_registry_first(sys, booking_id, booking, k) ==
  IF k = 2
  THEN IF booking.bus_id \in DOMAIN sys.buses
       THEN [sys EXCEPT !.buses[booking.bus_id] =
               release_seat(@, booking.seat, booking.date).bus]
       ELSE sys
  ELSE IF booking_id \in RegistryKeys(sys.bookings_db)
       THEN [sys EXCEPT !.bookings_db = RegistryDel(@, booking_id)]
       ELSE sys

\* the in-memory updates in their order: k = 1 is lines 528-531 (the seat is
\* released), k = 2 is lines 533-535 (the registry entry is removed)
cancel_memory(sys, booking_id, booking, k) ==
  IF k = 1
  THEN IF booking.bus_id \in DOMAIN sys.buses
       THEN [sys EXCEPT !.buses[booking.bus_id] =
               release_seat(@, booking.seat, booking.date).bus]
       ELSE sys
  ELSE IF booking_id \in RegistryKeys(sys.bookings_db)
       THEN [sys EXCEPT !.bookings_db = RegistryDel(@, booking_id)]
       ELSE sys

\* lines 488-551
cancel_booking(sys, booking_id, client_id) ==
  LET booking == get_booking_by_id(sys.db_bookings, booking_id)
      res(status, message) ==
        Result("cancel", status, message, client_id, booking_id, None, None, "")
  IN IF booking = NoBooking
     THEN [sys |-> sys, ret |-> res("raise", "TypeError")]
     ELSE IF booking.client_id # client_id
     THEN [sys |-> sys, ret |-> res("failure", "Unauthorized cancellation attempt")]
     ELSE LET s1 == cancel_transaction(sys, booking_id, booking)
              s2 == cancel_memory(s1, booking_id, booking, 1)
              s3 == cancel_memory(s2, booking_id, booking, 2)
          IN [sys |-> s3, ret |-> res("success", "Booking cancelled successfully")]

\* ------------------------------------------------------- admin.py
Sha256(password) == <<"sha256", password>>

credentials == [admin |-> Sha256("admin123")]

login(username, password) ==
  /\ username \in DOMAIN credentials
  /\ credentials[username] = Sha256(password)

\* _update_booking_after_merge that also renames the booking after its new
\* seat, in the registry only
update_booking_rekeyed(sys, client_id, old_bus_id, old_seat, new_bus_id, new_seat, date) ==
  LET reg == sys.bookings_db
      hits == {k \in DOMAIN reg :
                 /\ reg[k].client_id = client_id
                 /\ reg[k].bus_id = old_bus_id
                 /\ reg[k].seat = old_seat
                 /\ reg[k].date = date}
  IN IF hits = {} THEN sys
     ELSE [sys EXCEPT
             !.bookings_db[Min(hits)] =
                BookingData(client_id, new_bus_id, new_seat, date),
             !.db_bus_seats =
                save_bus_seat(delete_bus_seat(@, old_bus_id, old_seat, date),
                              new_bus_id, new_seat, client_id, date)]

\* _update_booking_after_merge without the save_booking of line 180: the
\* registry is rewritten, the bookings row is not
update_booking_registry_only(sys, client_id, old_bus_id, old_seat, new_bus_id, new_seat, date) ==
  LET reg == sys.bookings_db
      hits == {k \in DOMAIN reg :
                 /\ reg[k].client_id = client_id
                 /\ reg[k].bus_id = old_bus_id
                 /\ reg[k].seat = old_seat
                 /\ reg[k].date = date}
  IN IF hits = {} THEN sys
     ELSE LET k == Min(hits)
              booking == [reg[k] EXCEPT !.bus_id = new_bus_id, !.seat = new_seat]
          IN [sys EXCEPT
                !.bookings_db[k] = booking,
                !.db_bus_seats =
                   save_bus_seat(delete_bus_seat(@, old_bus_id, old_seat, date),
                                 new_bus_id, new_seat, client_id, date)]

update_booking_after_merge(sys, client_id, old_bus_id, old_seat, new_bus_id, new_seat, date) ==
  LET reg == sys.bookings_db
      hits == {k \in DOMAIN reg :
                 /\ reg[k].client_id = client_id
                 /\ reg[k].bus_id = old_bus_id
                 /\ reg[k].seat = old_seat
                 /\ reg[k].date = date}
  IN IF hits = {} THEN sys
     ELSE LET k == Min(hits)
              booking == [reg[k] EXCEPT !.bus_id = new_bus_id, !.seat = new_seat]
          IN [sys EXCEPT
                !.bookings_db[k] = booking,
                !.db_bookings = save_booking(@, booking),
                !.db_bus_seats =
                   save_bus_seat(delete_bus_seat(@, old_bus_id, old_seat, date),
                                 new_bus_id, new_seat, client_id, date)]

\* the active buses in id order, not sorted by load
SortedByIdOnly(buses, ids) ==
  [k \in 1..Cardinality(ids) |->
     CHOOSE i \in ids : Cardinality({j \in ids : j < i}) = k - 1]

\* sorted(active_buses, key=get_load_factor): stable, so ties keep id order
SortedByLoad(buses, ids) ==
  LET key(i) == get_load_factor(buses[i])
      before(j, i) == \/ LoadLess(key(j), key(i))
                      \/ (~LoadLess(key(i), key(j)) /\ j < i)
  IN [k \in 1..Cardinality(ids) |->
        CHOOSE i \in ids : Cardinality({j \in ids : before(j, i)}) = k - 1]

\* the loop over buses_to_keep without the else branch of lines 90-101: only
\* the same seat number is tried on each target
RECURSIVE TryTargetsSameSeat(_, _, _, _, _, _, _, _)
TryTargetsSameSeat(sys, keep, k, source_id, seat_num, client_id, date_str, time) ==
  IF k > Len(keep) THEN [sys |-> sys, transferred |-> FALSE]
  ELSE
    LET t == keep[k]
        av == is_seat_available(sys.buses[t], seat_num, date_str)
        bk == book_seat(av.bus, seat_num, client_id, date_str, TRUE, time)
    IN IF sys.buses[t].status = "active" /\ av.ret /\ bk.ret
       THEN [sys |-> update_booking_after_merge(
                       [sys EXCEPT !.buses[t] = bk.bus], client_id, source_id,
                       seat_num, t, seat_num, date_str),
             transferred |-> TRUE]
       ELSE TryTargetsSameSeat(sys, keep, k + 1, source_id, seat_num,
                               client_id, date_str, time)

\* lines 77-101: the loop over buses_to_keep for one held seat
RECURSIVE TryTargets(_, _, _, _, _, _, _, _)
TryTargets(sys, keep, k, source_id, seat_num, client_id, date_str, time) ==
  IF k > Len(keep) THEN [sys |-> sys, transferred |-> FALSE]
  ELSE
    LET t == keep[k]
        next(s) == TryTargets(s, keep, k + 1, source_id, seat_num, client_id,
                              date_str, time)
        moved(s, new_seat) ==
          [sys |-> update_booking_after_merge(s, client_id, source_id, seat_num,
                                              t, new_seat, date_str),
           transferred |-> TRUE]
    IN IF sys.buses[t].status # "active" THEN next(sys)
       ELSE
         LET av == is_seat_available(sys.buses[t], seat_num, date_str)
         IN IF av.ret
            THEN LET bk == book_seat(av.bus, seat_num, client_id, date_str,
                                     TRUE, time)
                     s == [sys EXCEPT !.buses[t] = bk.bus]
                 IN IF bk.ret THEN moved(s, seat_num) ELSE next(s)
            ELSE LET available == get_available_seats(av.bus, date_str)
                 IN IF Len(available.ret) > 0
                    THEN LET new_seat == available.ret[1]
                             bk == book_seat(available.bus, new_seat, client_id,
                                             date_str, TRUE, time)
                             s == [sys EXCEPT !.buses[t] = bk.bus]
                         IN IF bk.ret THEN moved(s, new_seat) ELSE next(s)
                    ELSE next([sys EXCEPT !.buses[t] = available.bus])

\* The held seats of a bus in the order lines 67-73 visit them: seats
\* ascending within a date.  Dates are visited in DateNames order (the dict
\* holds them in materialization order; seat maps of different dates do not
\* interact, so the order of dates does not change the outcome).
RECURSIVE HoldsFrom(_, _)
HoldsFrom(bus, i) ==
  IF i > Len(DateNames) THEN <<>>
  ELSE LET d == DateNames[i]
           here == IF d \in DOMAIN bus.seats_by_date
                   THEN LET seats == Ascending(DOMAIN bus.seats_by_date[d])
                        IN [n \in 1..Len(seats) |->
                              [seat |-> seats[n], date |-> d,
                               client_id |-> bus.seats_by_date[d][seats[n]]]]
                   ELSE <<>>
       IN here \o HoldsFrom(bus, i + 1)

\* lines 71-110 for the held seats of one source bus
RECURSIVE TransferHolds(_, _, _, _, _, _)
TransferHolds(sys, source_id, holds, n, keep, time) ==
  IF n > Len(holds) THEN sys
  ELSE LET h == holds[n]
           r == TryTargets(sys, keep, 1, source_id, h.seat, h.client_id,
                           h.date, time)
           s == IF r.transferred
                THEN [r.sys EXCEPT
                        !.buses[source_id] = release_seat(@, h.seat, h.date).bus]
                ELSE r.sys
       IN TransferHolds(s, source_id, holds, n + 1, keep, time)

\* the two halves of lines 75-105 for one hold with the source seat released
\* first and the hold placed afterwards
transfer_step_release_first(sys, source_id, h, keep, time, k) ==
  IF k = 2
  THEN TryTargets(sys, keep, 1, source_id, h.seat, h.client_id, h.date, time)
  ELSE [sys |-> [sys EXCEPT !.buses[source_id] =
                   release_seat(@, h.seat, h.date).bus],
        transferred |-> TRUE]

\* the two halves of lines 75-105 for one hold: k = 1 is the loop over the
\* kept buses (the seat is claimed and the booking rewritten), k = 2 is the
\* release of the source seat at line 105
transfer_step(sys, source_id, h, keep, time, k) ==
  IF k = 1
  THEN TryTargets(sys, keep, 1, source_id, h.seat, h.client_id, h.date, time)
  ELSE [sys |-> [sys EXCEPT !.buses[source_id] =
                   release_seat(@, h.seat, h.date).bus],
        transferred |-> TRUE]

\* lines 112-118: the source bus is marked merged and its seat data cleared
retire_source(sys, source_id) ==
  [sys EXCEPT !.buses[source_id] =
     [@ EXCEPT !.status = "merged", !.seats_by_date = <<>>, !.locks = <<>>,
               !.reservation_time = <<>>, !.booking_confirmed = <<>>]]

\* lines 65-120 for one source bus: transfer, then mark merged and clear
MergeSource(sys, source_id, keep, time) ==
  retire_source(TransferHolds(sys, source_id,
                              HoldsFrom(sys.buses[source_id], 1), 1, keep, time),
                source_id)

RECURSIVE MergeSources(_, _, _, _, _)
MergeSources(sys, to_merge, n, keep, time) ==
  IF n > Len(to_merge) THEN sys
  ELSE MergeSources(MergeSource(sys, to_merge[n], keep, time), to_merge, n + 1,
                    keep, time)

\* lines 42-126 of a system constructed with load_threshold_low = low_pct percent
merge_buses_below(sys, username, password, time, low_pct) ==
  LET res(status, message) ==
        Result("merge", status, message, username, NoId, None, None, "")
  IN IF ~login(username, password)
     THEN [sys |-> sys, ret |-> res("unauthorized", "")]
     ELSE
       LET active_buses == ActiveIds(sys.buses)
       IN IF LoadAtLeast(get_overall_load_factor(sys), low_pct)
          THEN [sys |-> sys,
                ret |-> res("failure", "Load factor too high to merge")]
          ELSE
            LET buses_by_load == SortedByLoad(sys.buses, active_buses)
                n == Len(buses_by_load)
                buses_to_keep == SubSeq(buses_by_load, (n \div 2) + 1, n)
                buses_to_merge == SubSeq(buses_by_load, 1, n \div 2)
            IN [sys |-> MergeSources(sys, buses_to_merge, 1, buses_to_keep, time),
                ret |-> [res("success", "") EXCEPT
                           !.merged_buses = buses_to_merge,
                           !.new_bus_count = Len(buses_to_keep)]]

\* load_threshold_low defaults to LOAD_THRESHOLD_LOW (line 24)
merge_buses(sys, username, password, time) ==
  merge_buses_below(sys, username, password, time, LOAD_THRESHOLD_LOW_PCT)

\* ------------------------------------------------------------ state
VARIABLES buses, bookings_db, db_bus_seats, db_bookings, now, nops, result,
          th, lock_owner, visitor_count, unique_visitors

sysvars == <<buses, bookings_db, db_bus_seats, db_bookings>>

visitors == <<visitor_count, unique_visitors>>

vars == <<buses, bookings_db, db_bus_seats, db_bookings, now, nops, result,
          th, lock_owner, visitor_count, unique_visitors>>

Sys ==
  [buses |-> buses, bookings_db |-> bookings_db,
   db_bus_seats |-> db_bus_seats, db_bookings |-> db_bookings]

SetSys(s) ==
  /\ buses' = s.buses
  /\ bookings_db' = s.bookings_db
  /\ db_bus_seats' = s.db_bus_seats
  /\ db_bookings' = s.db_bookings

NoResult == Result("none", "", "", "", NoId, None, None, "")

\* BusBookingSystem.__init__ on an empty database: the initial buses, all
\* active and unmaterialized, an empty registry and empty tables
InitSys ==
  /\ buses = [i \in 0..(InitialBuses - 1) |-> Bus(i, DEFAULT_SEATS_PER_BUS)]
  /\ bookings_db = <<>>
  /\ db_bus_seats = <<>>
  /\ db_bookings = <<>>
  /\ now = 0
  /\ nops = 0
  /\ result = NoResult
  /\ visitor_count = 0
  /\ unique_visitors = {}

Init ==
  /\ InitSys
  /\ th = <<>>
  /\ lock_owner = <<>>

\* the (preferred_bus, preferred_seat) pairs a caller passes
BookArgs ==
  (BusInputs \X SeatInputs) \cup {<<None, None>>, <<0, None>>, <<None, 1>>}

CancelIds == {BookingId(b, s, d) : b \in BusInputs, s \in SeatInputs, d \in Dates}

Passwords == {"admin123", "wrong"}

\* line 176: the call counts a visitor, naming no client
CountVisitor ==
  LET v == increment_visitor(visitor_count, unique_visitors, "")
  IN /\ visitor_count' = v.visitor_count
     /\ unique_visitors' = v.unique_visitors

\* one whole call of book_seat_for_client
Book ==
  \E c \in Clients, d \in Dates, a \in BookArgs :
    /\ nops < MaxOps
    /\ CountVisitor
    /\ LET r == book_seat_for_client(Sys, c, d, a[1], a[2], now)
       IN SetSys(r.sys) /\ result' = r.ret
    /\ nops' = nops + 1
    /\ UNCHANGED <<now, th, lock_owner>>

\* one whole call of book_seat_for_client during which the database raises
BookDbError ==
  \E c \in Clients, d \in Dates, a \in BookArgs :
    /\ nops < MaxOps
    /\ CountVisitor
    /\ LET r == book_seat_for_client_db_error(Sys, c, d, a[1], a[2], now)
       IN SetSys(r.sys) /\ result' = r.ret
    /\ nops' = nops + 1
    /\ UNCHANGED <<now, th, lock_owner>>

\* one whole call of cancel_booking
Cancel ==
  \E id \in CancelIds, c \in Clients :
    /\ nops < MaxOps
    /\ LET r == cancel_booking(Sys, id, c)
       IN SetSys(r.sys) /\ result' = r.ret
    /\ nops' = nops + 1
    /\ UNCHANGED <<now, th, lock_owner, visitors>>

\* lines 252 and 266-267, 275: the number of expired keys whose release_seat
\* returned True, which the sweep returns
released_seats(sys, current_time) ==
  LET act == ActiveIds(sys.buses)
  IN SumOver(act, [i \in act |->
       Cardinality({k \in ExpiredKeys(sys.buses[i], current_time) :
                      release_seat(sys.buses[i], k[1], k[2]).ret})])

SweepResult(sys, current_time) ==
  [Result("sweep", "done", "", "", NoId, None, None, "")
     EXCEPT !.released_seats = released_seats(sys, current_time)]

\* one whole call of release_expired_reservations
Sweep ==
  /\ nops < MaxOps
  /\ SetSys(release_expired_reservations(Sys, now))
  /\ result' = SweepResult(Sys, now)
  /\ nops' = nops + 1
  /\ UNCHANGED <<now, th, lock_owner, visitors>>

\* one whole call of AdminOperations.merge_buses
Merge ==
  \E pw \in Passwords :
    /\ nops < MaxOps
    /\ LET r == merge_buses(Sys, "admin", pw, now)
       IN SetSys(r.sys) /\ result' = r.ret
    /\ nops' = nops + 1
    /\ UNCHANGED <<now, th, lock_owner, visitors>>

\* time.time() advances
Tick ==
  /\ now < MaxClock
  /\ now' = now + 1
  /\ UNCHANGED <<sysvars, nops, result, th, lock_owner, visitors>>

Next == Book \/ BookDbError \/ Cancel \/ Sweep \/ Merge \/ Tick

Spec == Init /\ [][Next]_vars

\* ---------------------------------------------- concurrent callers
\* th[t] is caller thread t inside book_seat_for_client: its arguments, its
\* position and, once it has returned, its result status.
Threads == 1..NumThreads

IdleThread ==
  [pc |-> "idle", client_id |-> "", date |-> "", bus |-> None, seat |-> None,
   status |-> ""]

\* bookings made, one after the other, before the threads start: bus i may
\* already have its seat i + 1 booked by the first client
PriorArgs == {<<i, i + 1>> : i \in 0..(InitialBuses - 1)}

RECURSIVE PriorSystem(_, _)
PriorSystem(sys, args) ==
  IF args = {} THEN sys
  ELSE LET a == CHOOSE x \in args : \A y \in args : x[1] <= y[1]
       IN PriorSystem(
            book_seat_for_client(sys, ClientNames[1], DateNames[1], a[1], a[2], 0).sys,
            args \ {a})

EmptySys ==
  [buses |-> [i \in 0..(InitialBuses - 1) |-> Bus(i, DEFAULT_SEATS_PER_BUS)],
   bookings_db |-> <<>>, db_bus_seats |-> <<>>, db_bookings |-> <<>>]

InitConc ==
  /\ \E P \in SUBSET PriorArgs :
       LET s == PriorSystem(EmptySys, P)
       IN /\ buses = s.buses
          /\ bookings_db = s.bookings_db
          /\ db_bus_seats = s.db_bus_seats
          /\ db_bookings = s.db_bookings
          /\ visitor_count = Cardinality(P)
  /\ unique_visitors = {}
  /\ now = 0
  /\ nops = 0
  /\ result = NoResult
  /\ th = [t \in Threads |-> IdleThread]
  /\ lock_owner = <<>>

\* the call returns (or raises): only the status is kept
Return(t, status) ==
  th' = [th EXCEPT ![t] = [IdleThread EXCEPT !.pc = "done", !.status = status]]

\* lines 176-177: the call begins and sweeps under system_lock
ThreadSweep(t) ==
  /\ th[t].pc = "idle"
  /\ \E c \in Clients, d \in Dates, b \in DOMAIN buses, s \in 1..MaxSeatInput :
       th' = [th EXCEPT ![t] = [pc |-> "autoscale", client_id |-> c, date |-> d,
                                bus |-> b, seat |-> s, status |-> ""]]
  /\ CountVisitor
  /\ SetSys(release_expired_reservations(Sys, now))
  /\ UNCHANGED <<now, nops, result, lock_owner>>

\* line 178, under system_lock
ThreadAutoscale(t) ==
  /\ th[t].pc = "autoscale"
  /\ SetSys(add_buses_if_needed(Sys))
  /\ th' = [th EXCEPT ![t].pc = "check"]
  /\ UNCHANGED <<now, nops, result, lock_owner, visitors>>

\* lines 180-189, under no lock
ThreadCheck(t) ==
  /\ th[t].pc = "check"
  /\ LET chk == BookCheck(Sys, th[t].bus, th[t].seat)
     IN IF chk = "ok" THEN th' = [th EXCEPT ![t].pc = "txn"]
        ELSE IF chk = "ValueError" THEN Return(t, "raise")
        ELSE Return(t, "failure")
  /\ UNCHANGED <<sysvars, now, nops, result, lock_owner, visitors>>

\* lines 193-227: the BEGIN IMMEDIATE transaction, serialized by SQLite
ThreadTxn(t) ==
  /\ th[t].pc = "txn"
  /\ LET tx == BookTransaction(Sys, th[t].client_id, th[t].date, th[t].bus,
                               th[t].seat)
     IN IF tx.ok
        THEN SetSys(tx.sys) /\ th' = [th EXCEPT ![t].pc = "commit"]
        ELSE UNCHANGED sysvars /\ Return(t, "failure")
  /\ UNCHANGED <<now, nops, result, lock_owner, visitors>>

\* lines 230-232 under system_lock, then the return of lines 235-244
ThreadCommit(t) ==
  /\ th[t].pc = "commit"
  /\ SetSys(BookCommit(Sys, th[t].client_id, th[t].date, th[t].bus, th[t].seat,
                       now))
  /\ Return(t, "success")
  /\ UNCHANGED <<now, nops, result, lock_owner, visitors>>

\* merge_buses, cancel_booking and release_expired_reservations hold
\* system_lock from their first read to their last write, so each is one
\* step among the threads' steps
ConcMerge ==
  /\ nops < MaxConcOps
  /\ LET r == merge_buses(Sys, "admin", "admin123", now)
     IN SetSys(r.sys) /\ result' = r.ret
  /\ nops' = nops + 1
  /\ UNCHANGED <<now, th, lock_owner, visitors>>

\* a client cancels a booking of the registry
ConcCancel ==
  \E k \in DOMAIN bookings_db, c \in Clients :
    /\ nops < MaxConcOps
    /\ LET r == cancel_booking(Sys, bookings_db[k].booking_id, c)
       IN SetSys(r.sys) /\ result' = r.ret
    /\ nops' = nops + 1
    /\ UNCHANGED <<now, th, lock_owner, visitors>>

ConcSweep ==
  /\ nops < MaxConcOps
  /\ SetSys(release_expired_reservations(Sys, now))
  /\ result' = SweepResult(Sys, now)
  /\ nops' = nops + 1
  /\ UNCHANGED <<now, th, lock_owner, visitors>>

NextConc ==
  \/ \E t \in Threads : ThreadSweep(t)
  \/ \E t \in Threads : ThreadAutoscale(t)
  \/ \E t \in Threads : ThreadCheck(t)
  \/ \E t \in Threads : ThreadTxn(t)
  \/ \E t \in Threads : ThreadCommit(t)
  \/ ConcMerge
  \/ ConcCancel
  \/ ConcSweep
  \/ Tick

SpecConc == InitConc /\ [][NextConc]_vars

\* ------------------------------------ racing calls for one seat
\* NumRacers callers are inside book_seat_for_client with the same explicit
\* (bus, seat, date); nothing else runs, and the race is over well within
\* SEAT_RESERVATION_TIMEOUT, so the clock stands still.
Racers == 1..NumRacers

InitRace ==
  /\ InitSys
  /\ \E b \in 0..(InitialBuses - 1), s \in 1..MaxSeatInput, d \in Dates,
        same \in BOOLEAN :
       th = [t \in Racers |->
               [pc |-> "called",
                client_id |-> IF same THEN ClientNames[1] ELSE ClientNames[t],
                date |-> d, bus |-> b, seat |-> s, status |-> ""]]
  /\ lock_owner = <<>>

\* lines 176-177: the visitor is counted, then the sweep runs under
\* system_lock
RaceSweep(t) ==
  /\ th[t].pc = "called"
  /\ CountVisitor
  /\ SetSys(release_expired_reservations(Sys, now))
  /\ th' = [th EXCEPT ![t].pc = "autoscale"]
  /\ UNCHANGED <<now, nops, result, lock_owner>>

NextRace ==
  \/ \E t \in Racers : RaceSweep(t)
  \/ \E t \in Racers : ThreadAutoscale(t)
  \/ \E t \in Racers : ThreadCheck(t)
  \/ \E t \in Racers : ThreadTxn(t)
  \/ \E t \in Racers : ThreadCommit(t)

SpecRace == InitRace /\ [][NextRace]_vars

\* ------------------------------------- Bus.book_seat, statement by statement
\* NumRacers threads call book_seat(seat, client, date) on bus 0 with the
\* same seat and date.  th[t] is thread t: its arguments, its position, the
\* lock object it took from self.locks and what it returned.  lock_owner
\* maps every lock object to the thread holding it (0: free).
InitBus ==
  /\ \E s \in SeatInputs, d \in Dates, materialized \in BOOLEAN :
       /\ buses = [i \in {0} |->
                     IF materialized
                     THEN ensure_date_exists(Bus(0, DEFAULT_SEATS_PER_BUS), d)
                     ELSE Bus(0, DEFAULT_SEATS_PER_BUS)]
       /\ lock_owner = IF materialized THEN Put(<<>>, Lock(0), 0) ELSE <<>>
       /\ th = [t \in Racers |->
                  [pc |-> "ensure_map", client_id |-> ClientNames[t], date |-> d,
                   seat |-> s, lock |-> Lock(0), ret |-> "none"]]
  /\ bookings_db = <<>>
  /\ db_bus_seats = <<>>
  /\ db_bookings = <<>>
  /\ now = 0
  /\ nops = 0
  /\ result = NoResult
  /\ visitor_count = 0
  /\ unique_visitors = {}

Goto(t, pc) == th' = [th EXCEPT ![t].pc = pc]

BusUnchanged ==
  UNCHANGED <<bookings_db, db_bus_seats, db_bookings, now, nops, result, visitors>>

\* line 23: if date not in self.seats_by_date
CheckDate(t) ==
  /\ th[t].pc = "ensure_map"
  /\ Goto(t, IF th[t].date \notin DOMAIN buses[0].seats_by_date
             THEN "make_map" ELSE "ensure_lock")
  /\ UNCHANGED <<buses, lock_owner>> /\ BusUnchanged

\* line 24: self.seats_by_date[date] = {i: None ...}
MakeMap(t) ==
  /\ th[t].pc = "make_map"
  /\ buses' = [buses EXCEPT ![0].seats_by_date = Put(@, th[t].date, <<>>)]
  /\ Goto(t, "ensure_lock")
  /\ UNCHANGED lock_owner /\ BusUnchanged

\* line 25: if date not in self.locks
CheckLock(t) ==
  /\ th[t].pc = "ensure_lock"
  /\ Goto(t, IF th[t].date \notin DOMAIN buses[0].locks
             THEN "make_lock" ELSE "range")
  /\ UNCHANGED <<buses, lock_owner>> /\ BusUnchanged

\* line 26: self.locks[date] = threading.Lock()
MakeLock(t) ==
  /\ th[t].pc = "make_lock"
  /\ buses' = [buses EXCEPT ![0].locks = Put(@, th[t].date, Lock(t))]
  /\ lock_owner' = Put(lock_owner, Lock(t), 0)
  /\ Goto(t, "range")
  /\ BusUnchanged

\* line 77: if 1 <= seat_number <= self.total_seats; line 84 otherwise
CheckRange(t) ==
  /\ th[t].pc = "range"
  /\ IF 1 <= th[t].seat /\ th[t].seat <= buses[0].total_seats
     THEN Goto(t, "get_lock")
     ELSE th' = [th EXCEPT ![t].pc = "done", ![t].ret = "false"]
  /\ UNCHANGED <<buses, lock_owner>> /\ BusUnchanged

\* line 78: the lock object self.locks[date] is read
GetLock(t) ==
  /\ th[t].pc = "get_lock"
  /\ th' = [th EXCEPT ![t].pc = "acquire", ![t].lock = buses[0].locks[th[t].date]]
  /\ UNCHANGED <<buses, lock_owner>> /\ BusUnchanged

\* line 78: the with statement acquires it
Acquire(t) ==
  /\ th[t].pc = "acquire"
  /\ lock_owner[th[t].lock] = 0
  /\ lock_owner' = [lock_owner EXCEPT ![th[t].lock] = t]
  /\ Goto(t, "test")
  /\ UNCHANGED buses /\ BusUnchanged

\* line 79: if self.seats_by_date[date][seat_number] is None
TestSeat(t) ==
  /\ th[t].pc = "test"
  /\ IF th[t].seat \notin DOMAIN buses[0].seats_by_date[th[t].date]
     THEN Goto(t, "write_seat")
     ELSE th' = [th EXCEPT ![t].pc = "release", ![t].ret = "false"]
  /\ UNCHANGED <<buses, lock_owner>> /\ BusUnchanged

\* line 80
WriteSeat(t) ==
  /\ th[t].pc = "write_seat"
  /\ buses' = [buses EXCEPT ![0].seats_by_date[th[t].date] =
                              Put(@, th[t].seat, th[t].client_id)]
  /\ Goto(t, "write_time")
  /\ UNCHANGED lock_owner /\ BusUnchanged

\* line 81
WriteTime(t) ==
  /\ th[t].pc = "write_time"
  /\ buses' = [buses EXCEPT ![0].reservation_time =
                              Put(@, <<th[t].seat, th[t].date>>, now)]
  /\ Goto(t, "write_confirmed")
  /\ UNCHANGED lock_owner /\ BusUnchanged

\* lines 82-83
WriteConfirmed(t) ==
  /\ th[t].pc = "write_confirmed"
  /\ buses' = [buses EXCEPT ![0].booking_confirmed =
                              Put(@, <<th[t].seat, th[t].date>>, TRUE)]
  /\ th' = [th EXCEPT ![t].pc = "release", ![t].ret = "true"]
  /\ UNCHANGED lock_owner /\ BusUnchanged

\* leaving the with block releases the lock; the call returns
Release(t) ==
  /\ th[t].pc = "release"
  /\ lock_owner' = [lock_owner EXCEPT ![th[t].lock] = 0]
  /\ Goto(t, "done")
  /\ UNCHANGED buses /\ BusUnchanged

NextBus ==
  \/ \E t \in Racers : CheckDate(t)
  \/ \E t \in Racers : MakeMap(t)
  \/ \E t \in Racers : CheckLock(t)
  \/ \E t \in Racers : MakeLock(t)
  \/ \E t \in Racers : CheckRange(t)
  \/ \E t \in Racers : GetLock(t)
  \/ \E t \in Racers : Acquire(t)
  \/ \E t \in Racers : TestSeat(t)
  \/ \E t \in Racers : WriteSeat(t)
  \/ \E t \in Racers : WriteTime(t)
  \/ \E t \in Racers : WriteConfirmed(t)
  \/ \E t \in Racers : Release(t)

SpecBus == InitBus /\ [][NextBus]_vars

\* ------------------------------------------------- a fleet in service
\* The same calls on a system that has already taken bookings: at time 0 the
\* first client booked fill[2] seats of bus 0 and then fill[3] seats of bus 1,
\* from seat fill[1] upwards, each by one call of book_seat_for_client.
FleetFills ==
  {<<1, 1, 1>>, <<1, 10, 0>>, <<1, 10, 10>>, <<1, 40, 0>>,
   <<MaxSeatInput + 1, 40, 40>>}

RECURSIVE FillBus(_, _, _, _)
FillBus(sys, bus_id, seat, last) ==
  IF seat > last \/ bus_id \notin DOMAIN sys.buses THEN sys
  ELSE FillBus(book_seat_for_client(sys, ClientNames[1], DateNames[1], bus_id,
                                    seat, 0).sys,
               bus_id, seat + 1, last)

FilledSystem(fill) ==
  FillBus(FillBus(EmptySys, 0, fill[1], fill[1] + fill[2] - 1),
          1, fill[1], fill[1] + fill[3] - 1)

InitFleet ==
  /\ \E fill \in FleetFills :
       LET s == FilledSystem(fill)
       IN /\ buses = s.buses
          /\ bookings_db = s.bookings_db
          /\ db_bus_seats = s.db_bus_seats
          /\ db_bookings = s.db_bookings
          /\ visitor_count = fill[2] + fill[3]
  /\ unique_visitors = {}
  /\ now = 0
  /\ nops = MaxOps - FleetOps
  /\ result = NoResult
  /\ th = <<>>
  /\ lock_owner = <<>>

SpecFleet == InitFleet /\ [][Next]_vars

\* ------------------------------------------------ one bus, called alone
\* The methods of one Bus object, called one after the other; the system
\* around it owns no other bus, so its expiry sweep walks this bus only.
LedgerSeats == SeatInputs \cup {0}

InitLedger ==
  /\ buses = [i \in {0} |-> Bus(0, DEFAULT_SEATS_PER_BUS)]
  /\ bookings_db = <<>>
  /\ db_bus_seats = <<>>
  /\ db_bookings = <<>>
  /\ now = 0
  /\ nops = 0
  /\ result = NoResult
  /\ visitor_count = 0
  /\ unique_visitors = {}
  /\ th = <<>>
  /\ lock_owner = <<>>

\* what a method of the bus returned: a bool as "true" or "false"
LedgerResult(op, ret, message, client_id, seat, date) ==
  Result(op, IF ret THEN "true" ELSE "false", message, client_id, NoId, 0, seat, date)

LedgerUnchanged ==
  UNCHANGED <<bookings_db, db_bus_seats, db_bookings, now, th, lock_owner, visitors>>

\* one call of Bus.book_seat
LedgerBook ==
  \E s \in LedgerSeats, c \in Clients, d \in Dates, confirmed \in BOOLEAN :
    /\ nops < MaxOps
    /\ LET r == book_seat(buses[0], s, c, d, confirmed, now)
       IN /\ buses' = [buses EXCEPT ![0] = r.bus]
          /\ result' = LedgerResult("book_seat", r.ret,
                         IF confirmed THEN "confirmed" ELSE "unconfirmed", c, s, d)
    /\ nops' = nops + 1
    /\ LedgerUnchanged

\* one call of Bus.release_seat
LedgerRelease ==
  \E s \in LedgerSeats, d \in Dates :
    /\ nops < MaxOps
    /\ LET r == release_seat(buses[0], s, d)
       IN /\ buses' = [buses EXCEPT ![0] = r.bus]
          /\ result' = LedgerResult("release_seat", r.ret, "", "", s, d)
    /\ nops' = nops + 1
    /\ LedgerUnchanged

\* one call of Bus.get_available_seats
LedgerAvailable ==
  \E d \in Dates :
    /\ nops < MaxOps
    /\ LET r == get_available_seats(buses[0], d)
       IN /\ buses' = [buses EXCEPT ![0] = r.bus]
          /\ result' = LedgerResult("get_available_seats", r.ret # <<>>, "", "",
                                    None, d)
    /\ nops' = nops + 1
    /\ LedgerUnchanged

NextLedger == LedgerBook \/ LedgerRelease \/ LedgerAvailable \/ Sweep \/ Tick

SpecLedger == InitLedger /\ [][NextLedger]_vars

\* --------------------------------------- a reload beside other calls
\* _load_from_database, which the web handlers call on every request, takes
\* no lock: it reads the bookings table (lines 576-581) and then writes the
\* registry and the buses row by row (lines 587-614), while whole calls of
\* book_seat_for_client and cancel_booking run between its steps.  th is the
\* loader: its position, the rows it read and still has to load, and the
\* clients of the rows it has loaded.
IdleLoader == [pc |-> "idle", rows |-> {}, unique_visitors |-> {}]

InitReload ==
  /\ \E P \in SUBSET PriorArgs :
       LET s == PriorSystem(EmptySys, P)
       IN /\ buses = s.buses
          /\ bookings_db = s.bookings_db
          /\ db_bus_seats = s.db_bus_seats
          /\ db_bookings = s.db_bookings
          /\ visitor_count = Cardinality(P)
  /\ unique_visitors = {}
  /\ now = 0
  /\ nops = MaxOps - ReloadOps
  /\ result = NoResult
  /\ th = IdleLoader
  /\ lock_owner = <<>>

\* lines 576-581: SELECT * FROM bookings; no rows, no load
LoadRead ==
  /\ th.pc = "idle"
  /\ LET db_bookings_read == get_all_bookings(db_bookings)
     IN th' = IF db_bookings_read = {}
              THEN [th EXCEPT !.pc = "done"]
              ELSE [th EXCEPT !.pc = "loop", !.rows = db_bookings_read]
  /\ UNCHANGED <<sysvars, now, nops, result, lock_owner, visitors>>

\* lines 587-614 for one row: the registry entry is written and, when the
\* bus is known, the seat is booked and line 610 then raises AttributeError
\* (Bus has no departure_dates), which the handler of lines 653-655 logs:
\* the load ends there.  A row of an unknown bus is skipped; after the last
\* row lines 641-642 set the visitor count.  SELECT without ORDER BY: any
\* row may come next.
LoadRow ==
  /\ th.pc = "loop"
  /\ \E booking \in th.rows :
       LET known == booking.bus_id \in DOMAIN buses
           seen == th.unique_visitors \cup {booking.client_id}
           rest == th.rows \ {booking}
       IN /\ bookings_db' = RegistryPut(bookings_db, booking)
          /\ buses' = IF known
                      THEN [buses EXCEPT ![booking.bus_id] =
                              book_seat(@, booking.seat, booking.client_id,
                                        booking.date, TRUE, now).bus]
                      ELSE buses
          /\ th' = IF known \/ rest = {}
                   THEN [th EXCEPT !.pc = "done", !.rows = {},
                                   !.unique_visitors = seen]
                   ELSE [th EXCEPT !.rows = rest, !.unique_visitors = seen]
          /\ visitor_count' = IF ~known /\ rest = {}
                              THEN Cardinality(seen) ELSE visitor_count
  /\ UNCHANGED <<db_bus_seats, db_bookings, now, nops, result, lock_owner,
                 unique_visitors>>

NextReload == LoadRead \/ LoadRow \/ Book \/ Cancel

SpecReload == InitReload /\ [][NextReload]_vars

\* ------------------------------------ a merge among concurrent callers
\* merge_buses takes system_lock at line 47 and holds it to its return; its
\* loop over the source buses (lines 65-120) is one step per source bus.
\* th[Admin] is the administrator's call: its position, the partition of
\* lines 60-61 and the index of the next source bus.  lock_owner is the
\* holders of system_lock, <<>> when it is free.  The steps of
\* book_seat_for_client that take system_lock (lines 177, 178, 230-232) and
\* cancel_booking wait for it; lines 180-227 take no lock.
Admin == 0

IdleAdmin ==
  [pc |-> "idle", buses_to_merge |-> <<>>, buses_to_keep |-> <<>>, n |-> 1]

InitSteps ==
  /\ \E P \in SUBSET PriorArgs :
       LET s == PriorSystem(EmptySys, P)
       IN /\ buses = s.buses
          /\ bookings_db = s.bookings_db
          /\ db_bus_seats = s.db_bus_seats
          /\ db_bookings = s.db_bookings
          /\ visitor_count = Cardinality(P)
  /\ unique_visitors = {}
  /\ now = 0
  /\ nops = 0
  /\ result = NoResult
  /\ th = [t \in Threads \cup {Admin} |->
             IF t = Admin THEN IdleAdmin ELSE IdleThread]
  /\ lock_owner = <<>>

\* lines 42-61: login, system_lock taken, the load check and the partition;
\* a refused merge returns at line 54 and the lock is free again
MergeBegin ==
  /\ th[Admin].pc = "idle"
  /\ lock_owner = <<>>
  /\ LET r == merge_buses(Sys, "admin", "admin123", now)
         buses_by_load == SortedByLoad(buses, ActiveIds(buses))
         n == Len(buses_by_load)
     IN IF r.ret.status = "success"
        THEN /\ th' = [th EXCEPT ![Admin] =
                         [pc |-> "transfer",
                          buses_to_merge |-> SubSeq(buses_by_load, 1, n \div 2),
                          buses_to_keep |->
                            SubSeq(buses_by_load, (n \div 2) + 1, n),
                          n |-> 1]]
             /\ lock_owner' = <<Admin>>
             /\ UNCHANGED result
        ELSE /\ th' = [th EXCEPT ![Admin].pc = "done"]
             /\ result' = r.ret
             /\ UNCHANGED lock_owner
  /\ UNCHANGED <<sysvars, now, nops, visitors>>

\* lines 65-120 for the next source bus, system_lock held
MergeOne ==
  /\ th[Admin].pc = "transfer"
  /\ th[Admin].n <= Len(th[Admin].buses_to_merge)
  /\ SetSys(MergeSource(Sys, th[Admin].buses_to_merge[th[Admin].n],
                        th[Admin].buses_to_keep, now))
  /\ th' = [th EXCEPT ![Admin].n = @ + 1]
  /\ UNCHANGED <<now, nops, result, lock_owner, visitors>>

\* lines 122-126: the result is returned and system_lock released
MergeEnd ==
  /\ th[Admin].pc = "transfer"
  /\ th[Admin].n > Len(th[Admin].buses_to_merge)
  /\ result' = [Result("merge", "success", "", "admin", NoId, None, None, "")
                  EXCEPT !.merged_buses = th[Admin].buses_to_merge,
                         !.new_bus_count = Len(th[Admin].buses_to_keep)]
  /\ th' = [th EXCEPT ![Admin].pc = "done"]
  /\ lock_owner' = <<>>
  /\ UNCHANGED <<sysvars, now, nops, visitors>>

NextSteps ==
  \/ \E t \in Threads : lock_owner = <<>> /\ ThreadSweep(t)
  \/ \E t \in Threads : lock_owner = <<>> /\ ThreadAutoscale(t)
  \/ \E t \in Threads : ThreadCheck(t)
  \/ \E t \in Threads : ThreadTxn(t)
  \/ \E t \in Threads : lock_owner = <<>> /\ ThreadCommit(t)
  \/ (lock_owner = <<>> /\ ConcCancel)
  \/ MergeBegin
  \/ MergeOne
  \/ MergeEnd

SpecSteps == InitSteps /\ [][NextSteps]_vars

\* --------------------------------------------- a larger fleet to merge
\* BusBookingSystem(initial_buses = n) for n up to MaxFleet, each bus with
\* some of the seats of FillSeats booked on the first date by one client
\* per bus, the bookings made through book_seat_for_client.
FillSeats == SUBSET (1..2)

FleetOf(n) ==
  [buses |-> [i \in 0..(n - 1) |-> Bus(i, DEFAULT_SEATS_PER_BUS)],
   bookings_db |-> <<>>, db_bus_seats |-> <<>>, db_bookings |-> <<>>]

RECURSIVE BookSeats(_, _, _)
BookSeats(sys, bus_id, seats) ==
  IF seats = {} \/ bus_id \notin DOMAIN sys.buses THEN sys
  ELSE LET s == Min(seats)
       IN BookSeats(book_seat_for_client(sys,
                                         ClientNames[(bus_id % NumClients) + 1],
                                         DateNames[1], bus_id, s, 0).sys,
                    bus_id, seats \ {s})

RECURSIVE BookedFleet(_, _, _)
BookedFleet(sys, fill, i) ==
  IF i \notin DOMAIN fill \/ sys.buses = <<>> THEN sys
  ELSE BookedFleet(BookSeats(sys, i, fill[i]), fill, i + 1)

InitMerge ==
  /\ \E n \in 2..MaxFleet :
       \E fill \in [0..(n - 1) -> FillSeats] :
         LET s == BookedFleet(FleetOf(n), fill, 0)
         IN /\ buses = s.buses
            /\ bookings_db = s.bookings_db
            /\ db_bus_seats = s.db_bus_seats
            /\ db_bookings = s.db_bookings
            /\ visitor_count = Len(s.bookings_db)
  /\ unique_visitors = {}
  /\ now = 0
  /\ nops = MaxOps - MergeOps
  /\ result = NoResult
  /\ th = <<>>
  /\ lock_owner = <<>>

NextMerge == Merge \/ Book \/ Cancel

SpecMerge == InitMerge /\ [][NextMerge]_vars

\* ------------------------------------------- a fleet with a low cap
\* BusBookingSystem(initial_buses = InitialBuses, max_buses = m) for m up to
\* CapBuses, in service as above.  th holds the constructor's max_buses
\* (line 28), which no call changes.
InitCap ==
  /\ \E fill \in FleetFills :
       LET s == FilledSystem(fill)
       IN /\ buses = s.buses
          /\ bookings_db = s.bookings_db
          /\ db_bus_seats = s.db_bus_seats
          /\ db_bookings = s.db_bookings
          /\ visitor_count = fill[2] + fill[3]
  /\ unique_visitors = {}
  /\ now = 0
  /\ nops = MaxOps - FleetOps
  /\ result = NoResult
  /\ \E m \in InitialBuses..CapBuses : th = [max_buses |-> m]
  /\ lock_owner = <<>>

\* one whole call of book_seat_for_client on this system
CapBook ==
  \E c \in Clients, d \in Dates, a \in BookArgs :
    /\ nops < MaxOps
    /\ CountVisitor
    /\ LET r == book_seat_for_client_upto(Sys, c, d, a[1], a[2], now,
                                          th.max_buses)
       IN SetSys(r.sys) /\ result' = r.ret
    /\ nops' = nops + 1
    /\ UNCHANGED <<now, th, lock_owner>>

NextCap == CapBook \/ Cancel \/ Sweep \/ Merge \/ Tick

SpecCap == InitCap /\ [][NextCap]_vars

\* ------------------------------------------- a cancel step by step
\* cancel_booking holds system_lock from line 490 to its return; th is the
\* call: its position, its arguments and the booking row it read.  The other
\* calls take system_lock first, so they run between cancels only.
IdleCancel ==
  [pc |-> "idle", booking_id |-> NoId, client_id |-> "", booking |-> NoBooking]

InitCancel ==
  /\ \E P \in SUBSET PriorArgs :
       LET s == PriorSystem(EmptySys, P)
       IN /\ buses = s.buses
          /\ bookings_db = s.bookings_db
          /\ db_bus_seats = s.db_bus_seats
          /\ db_bookings = s.db_bookings
          /\ visitor_count = Cardinality(P)
  /\ unique_visitors = {}
  /\ now = 0
  /\ nops = 0
  /\ result = NoResult
  /\ th = IdleCancel
  /\ lock_owner = <<>>

\* lines 490-516: the lookup and the ownership test; the call returns here
\* (or raises TypeError on None) unless the caller owns the booking
CancelLookup ==
  \E id \in CancelIds, c \in Clients :
    /\ th.pc = "idle"
    /\ nops < MaxOps
    /\ LET r == cancel_booking(Sys, id, c)
       IN IF r.ret.status = "success"
          THEN /\ th' = [pc |-> "txn", booking_id |-> id, client_id |-> c,
                         booking |-> get_booking_by_id(db_bookings, id)]
               /\ lock_owner' = <<c>>
               /\ UNCHANGED result
          ELSE /\ result' = r.ret
               /\ UNCHANGED <<th, lock_owner>>
    /\ nops' = nops + 1
    /\ UNCHANGED <<sysvars, now, visitors>>

\* lines 518-526
CancelTxn ==
  /\ th.pc = "txn"
  /\ SetSys(cancel_transaction(Sys, th.booking_id, th.booking))
  /\ th' = [th EXCEPT !.pc = "release"]
  /\ UNCHANGED <<now, nops, result, lock_owner, visitors>>

\* lines 528-531
CancelRelease ==
  /\ th.pc = "release"
  /\ SetSys(cancel_memory(Sys, th.booking_id, th.booking, 1))
  /\ th' = [th EXCEPT !.pc = "remove"]
  /\ UNCHANGED <<now, nops, result, lock_owner, visitors>>

\* lines 533-551: the registry entry is removed and the call returns
CancelRemove ==
  /\ th.pc = "remove"
  /\ SetSys(cancel_memory(Sys, th.booking_id, th.booking, 2))
  /\ result' = Result("cancel", "success", "Booking cancelled successfully",
                      th.client_id, th.booking_id, None, None, "")
  /\ th' = IdleCancel
  /\ lock_owner' = <<>>
  /\ UNCHANGED <<now, nops, visitors>>

NextCancel ==
  \/ CancelLookup
  \/ CancelTxn
  \/ CancelRelease
  \/ CancelRemove
  \/ (lock_owner = <<>> /\ Book)
  \/ (lock_owner = <<>> /\ Sweep)
  \/ Tick

SpecCancel == InitCancel /\ [][NextCancel]_vars

\* --------------------------------------------- a fleet nearly full
\* BusBookingSystem(load_threshold_low = p) for p of LowThresholds percent,
\* with bus 1 full or nearly full on the first date.  th holds the
\* constructor's load_threshold_low (line 30), which no call changes.
LowThresholds == {50, 90}

FullFills ==
  {<<1, 1, 1>>, <<1, 9, 40>>, <<1, 10, 40>>, <<1, 2, 49>>, <<1, 2, 50>>}

InitFull ==
  /\ \E fill \in FullFills :
       LET s == FilledSystem(fill)
       IN /\ buses = s.buses
          /\ bookings_db = s.bookings_db
          /\ db_bus_seats = s.db_bus_seats
          /\ db_bookings = s.db_bookings
          /\ visitor_count = fill[2] + fill[3]
  /\ unique_visitors = {}
  /\ now = 0
  /\ nops = MaxOps - FleetOps
  /\ result = NoResult
  /\ \E p \in LowThresholds : th = [load_threshold_low |-> p]
  /\ lock_owner = <<>>

\* one whole call of merge_buses on this system
FullMerge ==
  \E pw \in Passwords :
    /\ nops < MaxOps
    /\ LET r == merge_buses_below(Sys, "admin", pw, now, th.load_threshold_low)
       IN SetSys(r.sys) /\ result' = r.ret
    /\ nops' = nops + 1
    /\ UNCHANGED <<now, th, lock_owner, visitors>>

NextFull == FullMerge \/ Book \/ Cancel \/ Tick

SpecFull == InitFull /\ [][NextFull]_vars

\* ------------------------------------------------ logger.AsyncLogger
\* th is the logger: log_queue, the writer thread's local batch, the entries
\* written by logging.info, logging_active, the writer's position and the
\* constructor's batch_size.  Messages are numbered in the order of the
\* log() calls.  The system's own state takes no part.
InitLogger ==
  /\ buses = EmptySys.buses
  /\ bookings_db = <<>>
  /\ db_bus_seats = <<>>
  /\ db_bookings = <<>>
  /\ visitor_count = 0
  /\ unique_visitors = {}
  /\ now = 0
  /\ nops = 0
  /\ result = NoResult
  /\ lock_owner = <<>>
  /\ \E b \in 1..MaxBatch :
       th = [log_queue |-> <<>>, batch |-> <<>>, written |-> <<>>,
             logging_active |-> TRUE, pc |-> "while", batch_size |-> b]

LoggerUnchanged == UNCHANGED <<sysvars, now, nops, result, lock_owner, visitors>>

\* lines 93-101: log(message), called before shutdown()
Log ==
  /\ th.logging_active
  /\ nops < MaxLog
  /\ th' = [th EXCEPT !.log_queue = Append(@, nops + 1)]
  /\ nops' = nops + 1
  /\ UNCHANGED <<sysvars, now, result, lock_owner, visitors>>

\* line 56: the writer tests its loop condition
WriterWhile ==
  /\ th.pc = "while"
  /\ th' = [th EXCEPT !.pc = IF th.logging_active \/ th.log_queue # <<>>
                             THEN "get" ELSE "end"]
  /\ LoggerUnchanged

\* lines 58-70: get() returns an entry; the batch is written when it has
\* batch_size entries or when flush_interval has elapsed, which may or may
\* not be the case
WriterGet ==
  /\ th.pc = "get"
  /\ th.log_queue # <<>>
  /\ \E elapsed \in BOOLEAN :
       LET batch == Append(th.batch, Head(th.log_queue))
           should_flush == Len(batch) >= th.batch_size \/ elapsed
       IN th' = [th EXCEPT !.log_queue = Tail(@),
                           !.batch = IF should_flush THEN <<>> ELSE batch,
                           !.written = IF should_flush THEN @ \o batch ELSE @,
                           !.pc = "while"]
  /\ LoggerUnchanged

\* lines 72-77: get() times out after a second on an empty queue (the clock
\* stops at MaxClock); the batch is written
WriterEmpty ==
  /\ th.pc = "get"
  /\ th.log_queue = <<>>
  /\ th' = [th EXCEPT !.batch = <<>>, !.written = @ \o th.batch,
                      !.pc = "while"]
  /\ now' = Min({now + 1, MaxClock})
  /\ UNCHANGED <<sysvars, nops, result, lock_owner, visitors>>

\* lines 122-126: shutdown() clears logging_active and joins the writer
Shutdown ==
  /\ th.logging_active
  /\ th' = [th EXCEPT !.logging_active = FALSE]
  /\ LoggerUnchanged

NextLogger == Log \/ WriterWhile \/ WriterGet \/ WriterEmpty \/ Shutdown

SpecLogger == InitLogger /\ [][NextLogger]_vars

\* ------------------------------------------- a merge hold by hold
\* merge_buses on the fleets of InitMerge, one step for each half of a
\* hold's transfer.  th is the call: its position, the partition, the index
\* of the source bus, the holds of that bus still to visit, whether the
\* current hold was placed, and the buses as they were when it began.
InitTransfer ==
  /\ \E n \in 2..MaxFleet :
       \E fill \in [0..(n - 1) -> FillSeats] :
         LET s == BookedFleet(FleetOf(n), fill, 0)
         IN /\ buses = s.buses
            /\ bookings_db = s.bookings_db
            /\ db_bus_seats = s.db_bus_seats
            /\ db_bookings = s.db_bookings
            /\ visitor_count = Len(s.bookings_db)
  /\ unique_visitors = {}
  /\ now = 0
  /\ nops = 0
  /\ result = NoResult
  /\ th = [pc |-> "idle", buses_to_merge |-> <<>>, buses_to_keep |-> <<>>,
           n |-> 1, holds |-> <<>>, transferred |-> FALSE, began |-> <<>>]
  /\ lock_owner = <<>>

\* lines 42-61, then line 65 for the first source bus
TransferBegin ==
  /\ th.pc = "idle"
  /\ LET buses_by_load == SortedByLoad(buses, ActiveIds(buses))
         n == Len(buses_by_load)
         buses_to_merge == SubSeq(buses_by_load, 1, n \div 2)
     IN /\ merge_buses(Sys, "admin", "admin123", now).ret.status = "success"
        /\ th' = [pc |-> "place", buses_to_merge |-> buses_to_merge,
                  buses_to_keep |-> SubSeq(buses_by_load, (n \div 2) + 1, n),
                  n |-> 1, holds |-> HoldsFrom(buses[buses_to_merge[1]], 1),
                  transferred |-> FALSE, began |-> buses]
  /\ lock_owner' = <<Admin>>
  /\ UNCHANGED <<sysvars, now, nops, result, visitors>>

\* lines 75-101 for the next hold of the source bus
TransferPlace ==
  /\ th.pc = "place"
  /\ th.holds # <<>>
  /\ LET r == transfer_step(Sys, th.buses_to_merge[th.n], Head(th.holds),
                            th.buses_to_keep, now, 1)
     IN /\ SetSys(r.sys)
        /\ th' = [th EXCEPT !.pc = "clear", !.transferred = r.transferred]
  /\ UNCHANGED <<now, nops, result, lock_owner, visitors>>

\* lines 103-110 for that hold
TransferClear ==
  /\ th.pc = "clear"
  /\ IF th.transferred
     THEN SetSys(transfer_step(Sys, th.buses_to_merge[th.n], Head(th.holds),
                               th.buses_to_keep, now, 2).sys)
     ELSE UNCHANGED sysvars
  /\ th' = [th EXCEPT !.pc = "place", !.holds = Tail(@)]
  /\ UNCHANGED <<now, nops, result, lock_owner, visitors>>

\* lines 112-120, then line 65 for the next source bus or the return of
\* lines 122-126
TransferRetire ==
  /\ th.pc = "place"
  /\ th.holds = <<>>
  /\ SetSys(retire_source(Sys, th.buses_to_merge[th.n]))
  /\ IF th.n < Len(th.buses_to_merge)
     THEN /\ th' = [th EXCEPT !.n = @ + 1,
                              !.holds = HoldsFrom(buses[th.buses_to_merge[th.n + 1]], 1)]
          /\ UNCHANGED <<result, lock_owner, nops>>
     ELSE /\ th' = [th EXCEPT !.pc = "done"]
          /\ result' = [Result("merge", "success", "", "admin", NoId, None,
                                None, "")
                          EXCEPT !.merged_buses = th.buses_to_merge,
                                 !.new_bus_count = Len(th.buses_to_keep)]
          /\ lock_owner' = <<>>
          /\ nops' = nops + 1
  /\ UNCHANGED <<now, visitors>>

NextTransfer == TransferBegin \/ TransferPlace \/ TransferClear \/ TransferRetire

SpecTransfer == InitTransfer /\ [][NextTransfer]_vars

\* ------------------------------------------------- the locks alone
\* Each call as the sequence of lock operations it performs, in the order of
\* the code: system_lock (an RLock), visitor_lock, a bus's per-date lock and
\* the database's write lock (BEGIN IMMEDIATE, or the first write of an
\* implicit transaction, up to the commit).  th[t] is thread t's call: its
\* operation, its position in the sequence and its result; lock_owner[l] is
\* the sequence of holders of lock l, one entry per acquisition.
Locks == {"system", "visitor", "date", "db"}

Acq(l) == <<"acquire", l>>

Rel(l) == <<"release", l>>

\* release_expired_reservations, lines 255-273, with one expired key:
\* bus.release_seat and db.delete_bus_seat under system_lock
SweepLocks ==
  <<Acq("system"), Acq("date"), Rel("date"), Acq("db"), Rel("db"),
    Rel("system")>>

\* add_buses_if_needed, lines 300-311: get_overall_load_factor takes
\* system_lock again (line 135)
AutoscaleLocks ==
  <<Acq("system"), Acq("system"), Rel("system"), Rel("system")>>

\* the book call with the memory update of lines 230-232 made inside the
\* transaction of lines 193-227
BookLocksInsideTransaction ==
  <<Acq("visitor"), Rel("visitor")>> \o SweepLocks \o AutoscaleLocks
    \o <<Acq("db"), Acq("system"), Acq("date"), Rel("date"), Rel("system"),
         Rel("db")>>

\* book_seat_for_client, lines 176-232: increment_visitor, the sweep, the
\* autoscale, the transaction, then bus.book_seat under system_lock
BookLocks ==
  <<Acq("visitor"), Rel("visitor")>> \o SweepLocks \o AutoscaleLocks
    \o <<Acq("db"), Rel("db"), Acq("system"), Acq("date"), Rel("date"),
         Rel("system")>>

\* cancel_booking, lines 490-535: the transaction and bus.release_seat
\* under system_lock
CancelLocks ==
  <<Acq("system"), Acq("db"), Rel("db"), Acq("date"), Rel("date"),
    Rel("system")>>

\* merge_buses, admin.py 47-126, with one hold to move: the load factor,
\* target.book_seat, the writes of _update_booking_after_merge, and
\* source.release_seat, all under system_lock
MergeLocks ==
  <<Acq("system"), Acq("system"), Rel("system"), Acq("date"), Rel("date"),
    Acq("db"), Rel("db"), Acq("date"), Rel("date"), Rel("system")>>

LockOps == {"book", "cancel", "sweep", "merge"}

LockProgram(op) ==
  IF op = "book" THEN BookLocks
  ELSE IF op = "cancel" THEN CancelLocks
  ELSE IF op = "sweep" THEN SweepLocks
  ELSE MergeLocks

InitLocks ==
  /\ buses = EmptySys.buses
  /\ bookings_db = <<>>
  /\ db_bus_seats = <<>>
  /\ db_bookings = <<>>
  /\ visitor_count = 0
  /\ unique_visitors = {}
  /\ now = 0
  /\ nops = 0
  /\ result = NoResult
  /\ th = [t \in Threads |-> [op |-> "none", pc |-> 0, status |-> ""]]
  /\ lock_owner = [l \in Locks |-> <<>>]

LocksUnchanged == UNCHANGED <<sysvars, now, nops, result, visitors>>

Running(t) == th[t].pc \in 1..Len(LockProgram(th[t].op))

Instr(t) == LockProgram(th[t].op)[th[t].pc]

\* threading.Lock and the database serve one holder; the RLock serves its
\* holder again
CanAcquire(t, l) ==
  IF lock_owner[l] = <<>> THEN TRUE
  ELSE l = "system" /\ Head(lock_owner[l]) = t

\* thread t is at an acquire that another thread's hold keeps waiting
Waiting(t) ==
  /\ Running(t)
  /\ Instr(t)[1] = "acquire"
  /\ ~CanAcquire(t, Instr(t)[2])

\* a thread begins a call
LockCall(t) ==
  /\ th[t].op = "none"
  /\ \E op \in LockOps : th' = [th EXCEPT ![t] = [op |-> op, pc |-> 1, status |-> ""]]
  /\ UNCHANGED lock_owner
  /\ LocksUnchanged

\* the next lock operation of the call; after the last one the call returns
LockStep(t) ==
  /\ Running(t)
  /\ LET l == Instr(t)[2]
     IN IF Instr(t)[1] = "acquire"
        THEN /\ CanAcquire(t, l)
             /\ lock_owner' = [lock_owner EXCEPT ![l] = Append(@, t)]
        ELSE lock_owner' = [lock_owner EXCEPT ![l] = Tail(@)]
  /\ th' = [th EXCEPT ![t].pc = @ + 1,
                      ![t].status = IF th[t].pc = Len(LockProgram(th[t].op))
                                    THEN "returned" ELSE @]
  /\ LocksUnchanged

\* sqlite3 gives up waiting for the write lock after its timeout: the
\* statement raises, every with block of the call is left and the call ends
LockTimeout(t) ==
  /\ Waiting(t)
  /\ Instr(t)[2] = "db"
  /\ lock_owner' = [l \in Locks |-> SelectSeq(lock_owner[l], LAMBDA x : x # t)]
  /\ th' = [th EXCEPT ![t].pc = Len(LockProgram(th[t].op)) + 1,
                      ![t].status = "raised"]
  /\ LocksUnchanged

NextLocks ==
  \/ \E t \in Threads : LockCall(t)
  \/ \E t \in Threads : LockStep(t)
  \/ \E t \in Threads : LockTimeout(t)

\* a thread that can take its next lock operation takes it
SpecLocks ==
  InitLocks /\ [][NextLocks]_vars /\ \A t \in Threads : WF_vars(LockStep(t))

\* ----------------------------------------------------------- claims
\* the step is a completed call of operation op
IsCall(op) == nops' = nops + 1 /\ result'.op = op

\* seat s of bus b is held for date d
Held(bs, b, s, d) ==
  /\ b \in DOMAIN bs
  /\ d \in DOMAIN bs[b].seats_by_date
  /\ s \in DOMAIN bs[b].seats_by_date[d]

\* booking bk names a seat that its client holds
Live(bs, bk) ==
  /\ Held(bs, bk.bus_id, bk.seat, bk.date)
  /\ bs[bk.bus_id].seats_by_date[bk.date][bk.seat] = bk.client_id

\* C4: every booking of the registry names a seat that the named bus holds,
\* on the booking's date, for the booking's client.
C4_BookingHasLiveSeat ==
  \A k \in DOMAIN bookings_db : Live(buses, bookings_db[k])

\* C5: a call of the expiry sweep leaves every confirmed hold in place.
C5_SweepKeepsConfirmed ==
  [][IsCall("sweep") =>
       \A b \in DOMAIN buses : \A key \in DOMAIN buses[b].booking_confirmed :
         buses[b].booking_confirmed[key] => Held(buses', b, key[1], key[2])]_vars

\* C8: a book call that names no bus and no seat, made while an active bus
\* has a free seat for the date, returns success on the lowest-numbered
\* active bus with a free seat, at its lowest free seat.
C8_AutoPickSucceeds ==
  [][(/\ IsCall("book")
      /\ result'.bus_id = None /\ result'.seat = None
      /\ ActiveIds(buses) # {})
     => /\ result'.status = "success"
        /\ \E k \in DOMAIN bookings_db' :
             /\ bookings_db'[k].client_id = result'.client_id
             /\ bookings_db'[k].bus_id = Min(ActiveIds(buses))
             /\ Live(buses', bookings_db'[k])]_vars

\* C9: a book call that names a held (bus, seat, date) fails.
C9_HeldSeatBookFails ==
  [][(IsCall("book") /\ Held(buses, result'.bus_id, result'.seat, result'.date))
     => result'.status = "failure"]_vars

\* the registry's bookings as (booking id, client) pairs
Holders(reg) == {<<reg[k].booking_id, reg[k].client_id>> : k \in DOMAIN reg}

\* the client of booking bk can cancel it
Cancellable(s, bk) ==
  LET r == cancel_booking(s, bk.booking_id, bk.client_id)
  IN /\ r.ret.status = "success"
     /\ bk.booking_id \notin RegistryKeys(r.sys.bookings_db)
     /\ bk.booking_id \notin DOMAIN r.sys.db_bookings

\* C6: a merge that passes its load test keeps the registry's bookings (the
\* same K booking ids with the same clients), each of them can afterwards
\* be cancelled by its client, and every bus it merged holds no seat.
C6_MergeKeepsBookings ==
  [][(IsCall("merge") /\ result'.status = "success")
     => /\ Len(bookings_db') = Len(bookings_db)
        /\ Holders(bookings_db') = Holders(bookings_db)
        /\ \A k \in DOMAIN bookings_db' :
             Cancellable([buses |-> buses', bookings_db |-> bookings_db',
                          db_bus_seats |-> db_bus_seats',
                          db_bookings |-> db_bookings'], bookings_db'[k])
        /\ \A n \in DOMAIN result'.merged_buses :
             /\ buses'[result'.merged_buses[n]].status = "merged"
             /\ BookedSeatDates(buses'[result'.merged_buses[n]]) = {}]_vars

\* a merge has succeeded and a booking now names a bus other than the one
\* it was made on
C6_Witness ==
  /\ result.op = "merge" /\ result.status = "success"
  /\ Len(result.merged_buses) > 0
  /\ \E k \in DOMAIN bookings_db :
       /\ bookings_db[k].booking_id[2] # bookings_db[k].bus_id
       /\ bookings_db[k].booking_id[2] = result.merged_buses[1]
       /\ Live(buses, bookings_db[k])

\* C10: a cancel call by a client other than the booking's client returns
\* the failure "Unauthorized cancellation attempt" and changes neither the
\* registry, nor the buses, nor the database tables.
C10_WrongClientCancelRefused ==
  [][(/\ IsCall("cancel")
      /\ \E k \in DOMAIN bookings_db :
           /\ bookings_db[k].booking_id = result'.booking_id
           /\ bookings_db[k].client_id # result'.client_id)
     => /\ result'.status = "failure"
        /\ result'.message = "Unauthorized cancellation attempt"
        /\ UNCHANGED sysvars]_vars

\* a cancel was refused while the booking, held by another client, is live
C10_Witness ==
  /\ result.op = "cancel" /\ result.status = "failure"
  /\ \E k \in DOMAIN bookings_db :
       /\ bookings_db[k].booking_id = result.booking_id
       /\ bookings_db[k].client_id # result.client_id
       /\ Live(buses, bookings_db[k])
       /\ result.booking_id \in DOMAIN db_bookings

\* C1: no two bookings of the registry name the same (bus, seat, date).
C1_UniqueTriples ==
  \A j, k \in DOMAIN bookings_db :
    (/\ bookings_db[j].bus_id = bookings_db[k].bus_id
     /\ bookings_db[j].seat = bookings_db[k].seat
     /\ bookings_db[j].date = bookings_db[k].date) => j = k

\* C7: a bus whose status is merged holds no seat: its seat maps stay empty
\* and no book call claims a seat on it.
C7_MergedBusUnused ==
  \A b \in DOMAIN buses :
    buses[b].status = "merged" => BookedSeatDates(buses[b]) = {}

\* C2: when all the racing book calls for one free seat have returned,
\* exactly one of them has returned success and every other one a failure.
C2_OneRacerWins ==
  (\A t \in DOMAIN th : th[t].pc = "done")
    => /\ Cardinality({t \in DOMAIN th : th[t].status = "success"}) = 1
       /\ \A t \in DOMAIN th : th[t].status \in {"success", "failure"}

\* all racers have returned, one with success and the others with a failure,
\* and the registry holds the one booking
C2_Witness ==
  /\ Cardinality(DOMAIN th) >= 2
  /\ \A t \in DOMAIN th : th[t].pc = "done"
  /\ \E t \in DOMAIN th :
       /\ th[t].status = "success"
       /\ \A u \in DOMAIN th \ {t} : th[u].status = "failure"
  /\ Len(bookings_db) = 1
  /\ Live(buses, bookings_db[1])

\* C3: of the threads calling book_seat for one (seat, date) of one bus, at
\* most one returns True.
C3_AtMostOneClaim ==
  Cardinality({t \in DOMAIN th : th[t].ret = "true"}) <= 1

\* C11: a cancel call whose booking id is not in the registry returns a
\* failure result as a value and changes nothing.
C11_UnknownIdCancelFails ==
  [][(IsCall("cancel") /\ result'.booking_id \notin RegistryKeys(bookings_db))
     => (result'.status = "failure" /\ UNCHANGED sysvars)]_vars

\* C20: every successful book call returns a booking id that no earlier
\* successful book call returned; here the earlier id is the one whose
\* cancellation has just succeeded.
C20_FreshIdAfterCancel ==
  [][(/\ result.op = "cancel" /\ result.status = "success"
      /\ IsCall("book") /\ result'.status = "success")
     => result'.booking_id # result.booking_id]_vars

\* the load factor as C17 states it: held seat-dates on active buses over
\* the sum, over active buses, of capacity times the number of recorded dates
StatedFleetLoad(bs) ==
  <<SumOver(ActiveIds(bs), [i \in ActiveIds(bs) |-> Cardinality(BookedSeatDates(bs[i]))]),
    SumOver(ActiveIds(bs),
            [i \in ActiveIds(bs) |->
               bs[i].total_seats * Cardinality(DOMAIN bs[i].seats_by_date)])>>

\* two load factors, each a pair (booked, capacity), are the same ratio; a
\* zero capacity stands for the load factor 0
SameLoad(a, b) ==
  LET na == IF a[2] = 0 THEN 0 ELSE a[1]
      nb == IF b[2] = 0 THEN 0 ELSE b[1]
      da == IF a[2] = 0 THEN 1 ELSE a[2]
      db == IF b[2] = 0 THEN 1 ELSE b[2]
  IN na * db = nb * da

\* C17: the overall load factor the system computes is the number of held
\* seat-dates on active buses divided by the sum, over active buses, of
\* capacity times the number of dates recorded in the bus.
C17_FleetLoadPerRecordedDate ==
  SameLoad(get_overall_load_factor(Sys), StatedFleetLoad(buses))

\* C18: on every bus and for every date the held seats are seats of the
\* bus, so their number is between 0 and the bus's capacity and the date's
\* load factor lies between 0 and 1.
C18_DateLoadBounded ==
  \A b \in DOMAIN buses : \A d \in Dates :
    LET bus == ensure_date_exists(buses[b], d)
        load == get_load_factor_for_date(buses[b], d).ret
    IN /\ DOMAIN bus.seats_by_date[d] \subseteq 1..bus.total_seats
       /\ 0 <= BookedOn(bus, d) /\ BookedOn(bus, d) <= bus.total_seats
       /\ 0 <= load[1] /\ load[1] <= load[2]

\* a bus holds seats for a date after a call that asked for a seat number
\* beyond the bus's capacity
C18_Witness ==
  /\ result.op = "book" /\ result.seat > DEFAULT_SEATS_PER_BUS
  /\ \E b \in DOMAIN buses : \E d \in DOMAIN buses[b].seats_by_date :
       BookedOn(buses[b], d) >= 2

\* C19: a book call by a client who has called book before adds no
\* visitor; here the caller is one whose earlier call left a booking in the
\* registry.
C19_RepeatCallerCountedOnce ==
  [][(/\ IsCall("book")
      /\ \E k \in DOMAIN bookings_db :
           bookings_db[k].client_id = result'.client_id)
     => visitor_count' = visitor_count]_vars

\* the bookings of the registry for seat s of bus b on date d
RegistryFor(reg, b, s, d) ==
  {reg[k] : k \in {j \in DOMAIN reg :
                     reg[j].bus_id = b /\ reg[j].seat = s /\ reg[j].date = d}}

\* C13: a book call during which the database write fails returns a
\* failure, and it leaves no hold on the seat and no booking for the seat in
\* the registry: whatever the seat and the registry show afterwards was
\* there before the call.
C13_FailedWriteLeavesNoClaim ==
  [][(IsCall("book") /\ result'.message = "Booking failed")
     => /\ result'.status = "failure"
        /\ Held(buses', result'.bus_id, result'.seat, result'.date)
             => Held(buses, result'.bus_id, result'.seat, result'.date)
        /\ RegistryFor(bookings_db', result'.bus_id, result'.seat, result'.date)
             \subseteq
           RegistryFor(bookings_db, result'.bus_id, result'.seat, result'.date)]_vars

\* a call for a free seat of an active bus failed in the database, and the
\* seat is free and unbooked afterwards, while another seat is held
C13_Witness ==
  /\ result.op = "book" /\ result.message = "Booking failed"
  /\ result.bus_id \in ActiveIds(buses)
  /\ result.seat \in 1..MaxSeatInput
  /\ ~Held(buses, result.bus_id, result.seat, result.date)
  /\ RegistryFor(bookings_db, result.bus_id, result.seat, result.date) = {}
  /\ bookings_db # <<>>

\* booking bk has been moved by a merge: it no longer names the seat its
\* booking id was made from
Moved(bk) == bk.booking_id # BookingId(bk.bus_id, bk.seat, bk.date)

\* C12: when a merge has moved a booking to another bus, a cancel call with
\* the booking's original id by its client succeeds, frees the seat the
\* booking now names, leaves the seat it first named free as well, and
\* removes the booking.
C12_CancelAfterMerge ==
  [][\A k \in DOMAIN bookings_db :
       (/\ IsCall("cancel")
        /\ result'.booking_id = bookings_db[k].booking_id
        /\ result'.client_id = bookings_db[k].client_id
        /\ Moved(bookings_db[k]))
       => /\ result'.status = "success"
          /\ ~Held(buses', bookings_db[k].bus_id, bookings_db[k].seat,
                   bookings_db[k].date)
          /\ ~Held(buses', result'.booking_id[2], result'.booking_id[3],
                   result'.booking_id[4])
          /\ result'.booking_id \notin RegistryKeys(bookings_db')]_vars

\* a moved booking, whose hold was live on the bus it was moved to, has just
\* been cancelled by its client: the bus it was made on is merged, and the
\* bus it was moved to no longer holds the seat
C12_Witness ==
  /\ result.op = "cancel" /\ result.status = "success"
  /\ result.booking_id \notin RegistryKeys(bookings_db)
  /\ result.booking_id[2] \in DOMAIN buses
  /\ buses[result.booking_id[2]].status = "merged"
  /\ \E b \in ActiveIds(buses) :
       /\ <<b, 2, result.booking_id[4]>> \notin DOMAIN db_bus_seats
       /\ ~Held(buses, b, 2, result.booking_id[4])
       /\ Held(buses, b, 1, result.booking_id[4])

\* the stated load factor is at least pct percent
StatedLoadAtLeast(bs, pct) ==
  LET load == StatedFleetLoad(bs)
  IN load[2] > 0 /\ load[1] * 100 >= pct * load[2]

\* C14: an authorised merge call made while the overall load factor is not
\* below the low threshold returns a failure and changes no bus, no seat map
\* and no booking.
C14_MergeRefusedAtLoad ==
  [][(/\ IsCall("merge") /\ result'.status # "unauthorized"
      /\ StatedLoadAtLeast(buses, LOAD_THRESHOLD_LOW_PCT))
     => (result'.status = "failure" /\ UNCHANGED sysvars)]_vars

\* C16: the autoscale check of a book call, made on the system as the
\* call's sweep left it, adds buses exactly when the overall load factor is
\* at least the high threshold and fewer than MAX_BUS_COUNT buses are
\* active; it then adds min(2, MAX_BUS_COUNT - active) active buses whose
\* ids exceed every earlier id, and otherwise adds none.
C16_AutoscaleAddsAtLoad ==
  [][IsCall("book") =>
       LET before == release_expired_reservations(Sys, now).buses
           active == Cardinality(ActiveIds(before))
           added == DOMAIN buses' \ DOMAIN before
       IN IF StatedLoadAtLeast(before, LOAD_THRESHOLD_HIGH_PCT)
             /\ active < MAX_BUS_COUNT
          THEN /\ Cardinality(added) = Min({2, MAX_BUS_COUNT - active})
               /\ \A i \in added :
                    /\ buses'[i].status = "active"
                    /\ \A j \in DOMAIN before : i > j
          ELSE added = {}]_vars

\* C15: starting from two active buses of 50 seats, once 81 book calls for
\* distinct seats have succeeded there are at least 3 active buses; the
\* registry, which keeps one booking per booked seat, counts the calls.
C15_ScalesAfter81Bookings ==
  [][(/\ IsCall("book") /\ result'.status = "success"
      /\ result'.seat \in 1..DEFAULT_SEATS_PER_BUS
      /\ Len(bookings_db) = 80 /\ Len(bookings_db') = 81)
     => Cardinality(ActiveIds(buses')) >= 3]_vars

\* C27: a book call that raises for a missing argument has changed nothing:
\* the visitor count, the buses with their seat maps, the registry and the
\* tables are as before the call.
C27_RaiseChangesNothing ==
  [][(IsCall("book") /\ result'.status = "raise")
     => UNCHANGED <<sysvars, visitors>>]_vars

\* C23: a release_seat call on a seat that is held clears the holder, the
\* reservation time and the confirmed flag and returns true; a call on a
\* seat that is not held changes nothing and returns false.
C23_ReleaseIdempotent ==
  [][IsCall("release_seat") =>
       LET s == result'.seat
           d == result'.date
       IN IF Held(buses, 0, s, d)
          THEN /\ result'.status = "true"
               /\ ~Held(buses', 0, s, d)
               /\ <<s, d>> \notin DOMAIN buses'[0].reservation_time
               /\ <<s, d>> \notin DOMAIN buses'[0].booking_confirmed
          ELSE /\ result'.status = "false"
               /\ UNCHANGED buses]_vars

\* the holder, reservation time and confirmed flag of seat s on date d,
\* each None-like when absent
HoldOf(bus, s, d) ==
  <<IF d \in DOMAIN bus.seats_by_date /\ s \in DOMAIN bus.seats_by_date[d]
    THEN bus.seats_by_date[d][s] ELSE "",
    IF <<s, d>> \in DOMAIN bus.reservation_time
    THEN bus.reservation_time[<<s, d>>] ELSE None,
    IF <<s, d>> \in DOMAIN bus.booking_confirmed
    THEN <<bus.booking_confirmed[<<s, d>>]>> ELSE <<>> >>

\* the holds of a bus: every seat's holder, reservation time and flag
HoldsOf(bus) ==
  <<UNION {{<<d, x, bus.seats_by_date[d][x]>> : x \in DOMAIN bus.seats_by_date[d]} :
             d \in DOMAIN bus.seats_by_date},
    bus.reservation_time, bus.booking_confirmed>>

\* C24: a book_seat call (made with the default confirmed flag) for a seat
\* number outside 1..total_seats or for a seat already held on the date
\* returns false and changes no holder, reservation time or confirmed flag;
\* any other call returns true, sets the holder to the caller, records the
\* time and marks the hold confirmed, and touches no other seat.
C24_BookSeatContract ==
  [][(IsCall("book_seat") /\ result'.message = "confirmed") =>
       LET s == result'.seat
           d == result'.date
       IN IF s \notin 1..buses[0].total_seats \/ Held(buses, 0, s, d)
          THEN result'.status = "false" /\ HoldsOf(buses'[0]) = HoldsOf(buses[0])
          ELSE /\ result'.status = "true"
               /\ HoldOf(buses'[0], s, d) = <<result'.client_id, now, <<TRUE>> >>
               /\ \A x \in LedgerSeats \ {s} :
                    HoldOf(buses'[0], x, d) = HoldOf(buses[0], x, d)]_vars

\* a call was refused because the seat was held, after an earlier call had
\* claimed it
C24_Witness ==
  /\ result.op = "book_seat" /\ result.message = "confirmed"
  /\ result.status = "false"
  /\ Held(buses, 0, result.seat, result.date)
  /\ buses[0].seats_by_date[result.date][result.seat] # result.client_id
  /\ buses[0].booking_confirmed[<<result.seat, result.date>>]

\* the elements of a list
Elements(list) == {list[i] : i \in DOMAIN list}

\* the seats of the bus without a holder on date d
Unheld(bus, d) ==
  {x \in 1..bus.total_seats :
     ~(d \in DOMAIN bus.seats_by_date /\ x \in DOMAIN bus.seats_by_date[d])}

\* C25: for every date, get_available_seats returns exactly the seats
\* 1..total_seats that have no holder on the date, in ascending order: after
\* every call, so all seats for a date never claimed, the seat less after a
\* book_seat call that returned true, and the seat again after a release.
C25_AvailableIsUnheld ==
  [][\A d \in Dates :
       \A after \in {get_available_seats(buses'[0], d).ret} :
          /\ Elements(after) = Unheld(buses'[0], d)
          /\ \A i \in 1..(Len(after) - 1) : after[i] < after[i + 1]
          /\ (IsCall("book_seat") /\ result'.status = "true" /\ result'.date = d)
               => Elements(after) = Unheld(buses[0], d) \ {result'.seat}
          /\ (IsCall("release_seat") /\ result'.status = "true" /\ result'.date = d)
               => Elements(after) = Unheld(buses[0], d) \cup {result'.seat}
          /\ (IsCall("get_available_seats") /\ buses[0].seats_by_date = <<>>)
               => Len(after) = buses[0].total_seats]_vars

\* two seats were claimed and one of them has just been released: it is
\* available again, the other is not
C25_Witness ==
  /\ result.op = "release_seat" /\ result.status = "true"
  /\ ~Held(buses, 0, result.seat, result.date)
  /\ \E x \in 1..MaxSeatInput : Held(buses, 0, x, result.date)
  /\ Len(get_available_seats(buses[0], result.date).ret) = DEFAULT_SEATS_PER_BUS - 1

\* C26: a call of the expiry sweep releases every hold of an active bus that
\* is not confirmed and older than the timeout, and leaves in place, with
\* its holder, every hold whose age is at most the timeout.
C26_SweepByAge ==
  [][IsCall("sweep") =>
       \A b \in ActiveIds(buses) : \A key \in DOMAIN buses[b].reservation_time :
         LET age == now - buses[b].reservation_time[key]
         IN /\ (age > SeatLockTimeout /\ ~buses[b].booking_confirmed[key])
                 => ~Held(buses', b, key[1], key[2])
            /\ (age <= SeatLockTimeout /\ Held(buses, b, key[1], key[2]))
                 => /\ Held(buses', b, key[1], key[2])
                    /\ buses'[b].seats_by_date[key[2]][key[1]]
                         = buses[b].seats_by_date[key[2]][key[1]]
                    /\ key \in DOMAIN buses'[b].reservation_time]_vars

\* a sweep has run at a time when an unconfirmed hold was older than the
\* timeout: that seat is free, and a hold made at the time of the sweep is
\* still in place
C26_Witness ==
  /\ result.op = "sweep" /\ result.released_seats = 1
  /\ now > SeatLockTimeout
  /\ \E d \in DOMAIN buses[0].seats_by_date :
       /\ DOMAIN buses[0].seats_by_date[d] # {}
       /\ \A x \in DOMAIN buses[0].seats_by_date[d] :
            /\ buses[0].reservation_time[<<x, d>>] = now
            /\ ~buses[0].booking_confirmed[<<x, d>>]
       /\ \E x \in 1..MaxSeatInput : ~Held(buses, 0, x, d)

\* C21: once a cancel call has succeeded, no step other than a new book
\* call brings the cancelled booking back: its id stays out of the registry
\* and its client holds the seat no more.
C21_CancelledStaysCancelled ==
  [][(/\ result.op = "cancel" /\ result.status = "success"
      /\ nops' = nops)
     => LET id == result.booking_id
        IN /\ id \notin RegistryKeys(bookings_db')
           /\ ~(/\ Held(buses', id[2], id[3], id[4])
                /\ buses'[id[2]].seats_by_date[id[4]][id[3]] = result.client_id)]_vars

\* C22: between the start and the end of a merge, while the administrator
\* holds the system lock, no caller of book takes a step.
C22_NoStepInsideMerge ==
  [][(lock_owner = <<Admin>> /\ lock_owner' = <<Admin>>)
     => \A t \in Threads : th'[t] = th[t]]_vars

\* C29: while a merge is moving holds, every bus chosen for merging that is
\* not yet merged has status "merging".
C29_MergingWhileMigrating ==
  th[Admin].pc = "transfer"
    => \A k \in th[Admin].n..Len(th[Admin].buses_to_merge) :
         buses[th[Admin].buses_to_merge[k]].status = "merging"

\* the load factor of one bus as the pair (booked seat-dates, capacity times
\* recorded dates); a bus with no recorded date has load 0
LedgerLoad(bus) ==
  IF DOMAIN bus.seats_by_date = {} THEN <<0, 1>>
  ELSE <<Cardinality(BookedSeatDates(bus)),
         bus.total_seats * Cardinality(DOMAIN bus.seats_by_date)>>

\* bus m comes before bus k: lower load, or the same load and a lower id
LedgerBefore(bs, m, k) ==
  LET a == LedgerLoad(bs[m])
      b == LedgerLoad(bs[k])
  IN \/ a[1] * b[2] < b[1] * a[2]
     \/ (a[1] * b[2] = b[1] * a[2] /\ m < k)

\* C28: a merge that succeeds over n active buses marks as merged exactly
\* the floor(n/2) buses that come first by (overall load factor, id), leaves
\* the other ceil(n/2) active, lists the merged ids in its result and
\* reports ceil(n/2) as the kept count.
C28_MergePartition ==
  [][(IsCall("merge") /\ result'.status = "success")
     => \A act \in {ActiveIds(buses)} :
          \A merged \in {Elements(result'.merged_buses)} :
            /\ Len(result'.merged_buses) = Cardinality(act) \div 2
            /\ Cardinality(merged) = Cardinality(act) \div 2
            /\ result'.new_bus_count = Cardinality(act) - (Cardinality(act) \div 2)
            /\ merged \subseteq act
            /\ \A m \in merged : \A k \in act \ merged : LedgerBefore(buses, m, k)
            /\ DOMAIN buses' = DOMAIN buses
            /\ \A i \in DOMAIN buses :
                 buses'[i].status = IF i \in merged THEN "merged"
                                    ELSE buses[i].status]_vars

\* a merge over three active buses merged one bus that is not the bus of
\* lowest id and kept two
C28_Witness ==
  /\ result.op = "merge"
  /\ result.status = "success"
  /\ Cardinality(DOMAIN buses) = 3
  /\ Len(result.merged_buses) = 1
  /\ result.merged_buses[1] # 0
  /\ result.new_bus_count = 2
  /\ buses[result.merged_buses[1]].status = "merged"
  /\ Cardinality(ActiveIds(buses)) = 2

\* the holds <<bus, seat, date, client>> of the given buses
HoldsOn(bs, ids) ==
  UNION {{<<i, x, d, bs[i].seats_by_date[d][x]>> : x \in DOMAIN bs[i].seats_by_date[d]} :
           <<i, d>> \in {p \in ids \X Dates : p[2] \in DOMAIN bs[p[1]].seats_by_date}}

\* C30: a merge that has a single hold to migrate, whose seat number is
\* free on some kept bus for the hold's date, places the hold on that seat
\* number of a kept bus where it was free.
C30_SameSeatWhereFree ==
  [][(IsCall("merge") /\ result'.status = "success")
     => \A merged \in {Elements(result'.merged_buses)} :
          \A kept \in {ActiveIds(buses) \ merged} :
            \A h \in HoldsOn(buses, merged) :
              (/\ HoldsOn(buses, merged) = {h}
               /\ \E k \in kept : ~Held(buses, k, h[2], h[3]))
              => \E k \in kept :
                   /\ ~Held(buses, k, h[2], h[3])
                   /\ Held(buses', k, h[2], h[3])
                   /\ buses'[k].seats_by_date[h[3]][h[2]] = h[4]]_vars

\* C34: a system that starts with at most max_buses active buses has at
\* most max_buses active buses in every state reached by book (with its
\* sweep and autoscale), cancel, expiry sweep and merge.
C34_ActiveAtMostMaxBuses == Cardinality(ActiveIds(buses)) <= th.max_buses

\* a book call's autoscale added the one bus the cap still allowed
C34_Witness ==
  /\ result.op = "book"
  /\ th.max_buses = InitialBuses + 1
  /\ Cardinality(DOMAIN buses) = InitialBuses + 1
  /\ Cardinality(ActiveIds(buses)) = th.max_buses

\* C32: at every step of a cancel that goes through, the registry still has
\* the booking as long as its seat is held in its bus: the seat is released
\* before the registry entry is removed.
C32_LedgerClearedFirst ==
  th.pc \in {"txn", "release", "remove"}
    => (Held(buses, th.booking.bus_id, th.booking.seat, th.booking.date)
          => th.booking_id \in RegistryKeys(bookings_db))

\* the cancel has released the seat, which was held since time 0, and has
\* not yet removed the registry entry
C32_Witness ==
  /\ th.pc = "remove"
  /\ now = 0
  /\ th.booking_id \in RegistryKeys(bookings_db)
  /\ th.booking_id \notin DOMAIN db_bookings
  /\ ~Held(buses, th.booking.bus_id, th.booking.seat, th.booking.date)

\* the holds <<date, client>> of the given buses, counted with multiplicity
\* as the number of seats each client holds on each date
HeldCount(bs, ids, d, c) ==
  Cardinality({h \in HoldsOn(bs, ids) : h[3] = d /\ h[4] = c})

\* C38: with load_threshold_low at most 0.5 and buses of one capacity, a
\* merge that passes its load test leaves no hold unplaced: every seat that
\* a client held on a merged bus is afterwards one more seat that the client
\* holds on the kept buses for the same date.
C38_EveryHoldPlaced ==
  [][(/\ IsCall("merge") /\ result'.status = "success"
      /\ th.load_threshold_low <= 50)
     => \A merged \in {Elements(result'.merged_buses)} :
          \A kept \in {ActiveIds(buses) \ merged} :
            \A d \in Dates, c \in Clients :
              HeldCount(buses', kept, d, c)
                = HeldCount(buses, kept, d, c) + HeldCount(buses, merged, d, c)]_vars

\* a merge under a threshold of one half moved nine holds onto a kept bus
\* where their seat numbers were taken
C38_Witness ==
  /\ result.op = "merge"
  /\ result.status = "success"
  /\ th.load_threshold_low = 50
  /\ \E k \in ActiveIds(buses) :
       {40, 41, 49} \subseteq {h[2] : h \in HoldsOn(buses, {k})}

\* C33: a merge in which some hold finds no seat on any kept bus returns
\* success, and every hold of a merged bus is afterwards either held by its
\* client on a kept bus or still held by its client on its own bus.
C33_UnplacedHoldKept ==
  [][(IsCall("merge") /\ result'.status = "success")
     => \A merged \in {Elements(result'.merged_buses)} :
          \A kept \in {ActiveIds(buses) \ merged} :
            \A d \in Dates, c \in Clients :
              HeldCount(buses', kept \cup merged, d, c)
                = HeldCount(buses, kept \cup merged, d, c)]_vars

\* C35: when the writer thread has terminated, every message passed to
\* log() before shutdown() has been written, in order.
C35_ShutdownFlushes ==
  th.pc = "end" => th.written = [i \in 1..nops |-> i]

\* C36: between calls the durable mirror matches memory: the bus_seats rows
\* of the active buses are exactly the (seat, date, holder) entries of their
\* seat maps, and the bookings rows are exactly the registry's bookings.
C36_MirrorMatchesMemory ==
  /\ {<<k[1], k[2], k[3], db_bus_seats[k]>> :
        k \in {x \in DOMAIN db_bus_seats : x[1] \in ActiveIds(buses)}}
       = HoldsOn(buses, ActiveIds(buses))
  /\ get_all_bookings(db_bookings) = Elements(bookings_db)

\* C37: a get_available_seats query about a date on which the bus has no
\* claim leaves the bus's recorded dates and its overall load factor as
\* they were.
C37_QueryRecordsNoDate ==
  [][(/\ IsCall("get_available_seats")
      /\ HoldsOn(buses, {0}) = HoldsOn(buses', {0})
      /\ \A h \in HoldsOn(buses, {0}) : h[3] # result'.date)
     => /\ DOMAIN buses'[0].seats_by_date = DOMAIN buses[0].seats_by_date
        /\ SameLoad(LedgerLoad(buses'[0]), LedgerLoad(buses[0]))]_vars

\* C31: at every step of a merge, each client holds on each date at least
\* as many seats, over all buses, as when the merge began: a hold is claimed
\* on a kept bus before its seat on the source bus is released.
C31_HoldNeverAbsent ==
  th.pc \in {"place", "clear"}
    => \A d \in Dates, c \in Clients :
         HeldCount(buses, DOMAIN buses, d, c)
           >= HeldCount(th.began, DOMAIN th.began, d, c)

\* a hold has been claimed on a kept bus and rewritten in the registry, and
\* its seat on the source bus is not yet released
C31_Witness ==
  /\ th.pc = "clear"
  /\ th.transferred
  /\ Held(buses, th.buses_to_merge[th.n], Head(th.holds).seat, Head(th.holds).date)
  /\ \E k \in DOMAIN bookings_db :
       /\ bookings_db[k].client_id = Head(th.holds).client_id
       /\ bookings_db[k].bus_id \in Elements(th.buses_to_keep)
       /\ Held(buses, bookings_db[k].bus_id, bookings_db[k].seat, bookings_db[k].date)

\* C39: whenever calls are running, one of them is not waiting for a lock,
\* so no set of threads waits in a cycle; and every call that has begun
\* returns (or raises).
C39_NoDeadlock ==
  /\ []((\E t \in Threads : Running(t))
          => \E t \in Threads : Running(t) /\ ~Waiting(t))
  /\ \A t \in Threads : (Running(t) ~> th[t].status # "")

\* a cancel holds the system lock and waits for the write lock that a book
\* call's transaction holds
C39_Witness ==
  \E t, u \in Threads :
    /\ th[t].op = "cancel" /\ Waiting(t) /\ Instr(t)[2] = "db"
    /\ lock_owner["system"] = <<t>>
    /\ th[u].op = "book" /\ lock_owner["db"] = <<u>>

====
